---- MODULE Spec2Model ----
(***************************************************************************)
(* Balance-tracking and caching subsystem of the investment routes         *)
(* (routes/investments/shared): the investments collection, the two        *)
(* Bottleneck limiters, the credential refresh, the balance aggregation,   *)
(* the cache updaters and the handlers built on them.                      *)
(*                                                                         *)
(* Every async function is cut at its awaits.  A label of pc names what an *)
(* operation is waiting for: an I/O label (a store operation, a limiter    *)
(* call or a fetch in flight) or a return label (the awaited function has  *)
(* settled and the caller's continuation is due).  One action is the       *)
(* completion of one awaited operation followed by the synchronous code up *)
(* to the next await.  Continuations are microtasks: they run before any   *)
(* further completion or timer is processed (Settled).  The wall clock     *)
(* `now` is in milliseconds.                                               *)
(***************************************************************************)
EXTENDS Integers, Sequences, FiniteSets, TLC

\* ---------------------------------------------------------------- time ----
MsPerSecond == 1000
MsPerMinute == 60000
MsPerHour == 3600000
MsPerDay == 86400000

\* dayjs.utc().startOf('day')
StartOfDayUtc(t) == (t \div MsPerDay) * MsPerDay

\* dayjs().startOf('day') in a process whose local zone is off ms from UTC
StartOfDayLocal(t, off) == ((t + off) \div MsPerDay) * MsPerDay - off

\* dayjs(a).diff(b, 'minutes'): the difference truncated toward zero
DiffMinutes(a, b) ==
    IF a >= b THEN (a - b) \div MsPerMinute ELSE 0 - ((b - a) \div MsPerMinute)

\* --------------------------------------------------------------- state ----
VARIABLES
    now,            \* wall clock (ms since the epoch of the model)
    tzOffset,       \* offset of the process's local zone from UTC (ms)
    accountsOf,     \* upstream: accountsOf[o] = the accounts the brokerage lists for owner o
    equity,         \* upstream: equity[a] = CAD total equity of account a
    positionsOf,    \* upstream: positionsOf[a] = positions of account a
    quoteOf,        \* upstream: quoteOf[s] = the quote of symbol id s
    detailOf,       \* upstream: detailOf[s] = the symbol details of symbol id s
    ratesOffered,   \* upstream: the USD-to-CAD rates the exchange-rate service may answer
    lifetimesOffered, \* upstream: the expires_in values (s) the brokerage may grant
    failingKinds,   \* upstream: the kinds of call that may fail: a brokerage call
                    \*   answered with a non-success status, the exchange-rate
                    \*   request ("exchangeRate"), a store operation ("store")
    dailyBalances,  \* DailyBalance documents of the collection, in natural order
    lastWrite,      \* history: lastWrite[i] = time dailyBalances[i] was last written
    auths,          \* credential documents ({ auth: true }) of the collection
    caches,         \* singleton documents ({ type: ... }) of the collection
    issued,         \* upstream: number of the last token pair the brokerage issued
    direct,         \* upstream: the fetches in flight that were sent without a limiter
    queue,          \* queue[l]: calls submitted to limiter l and not yet dispatched
    running,        \* running[l]: calls of limiter l in flight
    lastStart,      \* lastStart[l]: time of limiter l's last dispatch (-1: none yet)
    lastGap,        \* history: time between limiter l's last two dispatches (-1: fewer than two)
    nextSeq,        \* history: nextSeq[l] = number of calls submitted to l so far
    lastSeq,        \* history: submission number of the call l dispatched last
    launched,       \* history: launched[l] = the kinds of call l has dispatched
    hung,           \* upstream: the calls in flight, as <<limiter, number>>, whose fetch
                    \*   never settles
    lastFire,       \* the schedule mark at which the cron job fired last (-1: never)
    awaiting,       \* awaiting[p]: the scheduled calls whose result p is awaiting
    pc,             \* pc[p]: stack of labels of operation p, current label first
    rejected,       \* history: rejected[p] = non-success responses delivered to p
    log,            \* history: log[p] = the operation p runs, the functions it has
                    \*   called and the labels at which a failure reached it, in order
    balance,        \* balance[p]: `balance` / `total` local of the running handler
    todayDate,      \* todayDate[p]: the date computed by the store function in progress
    current,        \* current[p]: what updateDailyBalance's findOne returned (found or not)
    returned,       \* returned[p]: value of the store function that returned last
                    \*   (<<>> for null, <<n>> for the number n)
    authList,       \* authList[p]: the in-memory `auths` array of getAuths
    idx,            \* idx[p]: position of getAuths' for-loop in authList[p]
    grant,          \* grant[p]: the grant getAuths received last, with its time
    tokenCalls,     \* history: tokenCalls[p][k] = token exchanges p issued for authList[p][k]
    checked,        \* history: checked[p][k] = how the expiry of authList[p][k] stood to
                    \*   the clock when the loop tested it ("no": not tested yet)
    ai,             \* ai[p]: position of a cache updater's loop over the credentials
    ci,             \* ci[p]: position of a cache updater's loop over the accounts
    accountBalances,\* accountBalances[p]: the array updateAccountsCache builds
    symbolMap,      \* symbolMap[p]: the entries of updateSymbolsCache's Map, in insertion order
    market,         \* market[p]: the answers to the quotes and symbol-details calls so far
    usdToCad,       \* usdToCad[p]: the rate updateExchangeRateCache received
    stamp,          \* stamp[p]: the `updatedAt` of the cache document being written
    unmatched,      \* unmatched[p]: no document matched the filter when p's upsert
                    \*   of a cache document was sent
    result,         \* result[p]: what the operation returned / responded
    dash,           \* dash[p]: the locals of the dashboard handler
    probe           \* a function applied on its own: its operands and, once
                    \*   applied, its value (NoProbe: none)

\* what no step of an operation changes: the upstream data and the operands
\* of a function applied on its own
envVars == <<tzOffset, accountsOf, equity, positionsOf, quoteOf, detailOf, ratesOffered,
            lifetimesOffered, failingKinds, probe>>
storeVars == <<dailyBalances, lastWrite, auths, caches>>
upstreamVars == <<issued, direct>>
limiterVars == <<queue, running, lastStart, lastGap, nextSeq, lastSeq, launched, hung>>
balanceVars == <<balance, todayDate, current, returned>>
authVars == <<authList, idx, grant, tokenCalls, checked>>
cacheVars == <<ai, ci, accountBalances, symbolMap, market, usdToCad, stamp, unmatched>>
histVars == <<rejected, log>>
\* what no step of an operation changes: the clock, the upstream data, the scheduler
outerVars == <<now, envVars, lastFire>>
vars == <<outerVars, storeVars, upstreamVars, limiterVars, awaiting, pc, histVars,
          balanceVars, authVars, cacheVars, result, dash>>

\* no grant received yet
NoGrant == [access_token |-> 0, refresh_token |-> 0, api_server |-> "none",
            expires_in |-> 0, at |-> -1]

\* neither the quotes nor the symbol details have arrived
NoMarket == [quotes |-> <<>>, details |-> <<>>, got |-> {}]

\* the operation has not returned or responded yet
NoResult == [status |-> "pending", body |-> <<>>]
\* no function is applied on its own
NoProbe == <<>>
\* the dashboard handler has read nothing yet (<<>>: undefined / null)
NoDash == [latest |-> 0, changePercent |-> 0, history |-> <<>>, accounts |-> <<>>,
           symbols |-> <<>>, rate |-> <<>>]
Procs == {"p1", "p2"}
Owners == <<"o1", "o2">>

At(p, l) == pc[p] # <<>> /\ Head(pc[p]) = l
Min(S) == CHOOSE x \in S : \A y \in S : x <= y
Max(S) == CHOOSE x \in S : \A y \in S : x >= y

\* ------------------------------------------------- awaits and exceptions ----
\* the labels at which a caller's continuation is due
ReturnLabels ==
    {"ga_caller",
     "fb_afterAuths", "fb_afterTotal", "fb_afterUpdate", "fb_afterAccounts",
     "fb_afterSymbols", "fb_afterExchange", "fb_catch",
     "hgb_today", "hgb_afterUpdate", "hgb_latest", "hgb_catch",
     "hfb_afterAuths", "hfb_afterTotal", "hfb_catch",
     "uac_afterAuths", "usc_afterAuths", "usc_afterFresh",
     "dash_latest", "dash_yesterday", "dash_history", "dash_afterAccounts",
     "dash_afterSymbols", "dash_afterRate", "dash_catch",
     "hpc_latest", "hpc_yesterday", "hpc_catch"}

\* no continuation is due: the event loop takes the next completion or timer
Settled == \A p \in Procs : Head(pc[p]) \notin ReturnLabels

\* Where a throw lands.  The labels fb_*, hgb_*, hfb_*, hpc_* and dash_* lie
\* inside the try block of fetchBalance, handleGetBalance, handleForceBalance,
\* handlePercentageChange and the dashboard route: their catch block ends the
\* operation.  The labels uac_*, usc_* and uerc_* lie inside the
\* try block of updateAccountsCache, updateSymbolsCache and
\* updateExchangeRateCache: their catch block logs and the function returns
\* to its caller.  getAuths, getRemoteTotalBalance and updateDailyBalance
\* catch nothing.
TryOf(l) ==
    IF l \in {"fb_afterAuths", "fb_afterTotal", "fb_afterUpdate", "fb_afterAccounts",
              "fb_afterSymbols", "fb_afterExchange"} THEN "fetchBalance"
    ELSE IF l \in {"hgb_today", "hgb_afterUpdate", "hgb_latest"} THEN "handleGetBalance"
    ELSE IF l \in {"hfb_afterAuths", "hfb_afterTotal"} THEN "handleForceBalance"
    ELSE IF l \in {"hpc_latest", "hpc_yesterday"} THEN "handlePercentageChange"
    ELSE IF l \in {"dash_latest", "dash_yesterday", "dash_history", "dash_accounts",
                   "dash_afterAccounts", "dash_accountsAgain", "dash_symbols",
                   "dash_afterSymbols", "dash_symbolsAgain", "dash_rate",
                   "dash_afterRate", "dash_rateAgain"} THEN "dashboard"
    ELSE IF l \in {"uac_afterAuths", "uac_accounts", "uac_balance", "uac_updateOne",
                   "usc_afterAuths", "usc_accounts", "usc_positions", "usc_afterFresh",
                   "usc_market", "usc_updateOne", "uerc_fetch", "uerc_updateOne"}
         THEN "updater"
    ELSE "none"

\* no catch anywhere: every throw reaches whoever awaited the operation
UnwindUncaught(stack) == <<"threw">>

\* the catch block of a cache updater throws the error on
RECURSIVE UnwindRethrown(_)
UnwindRethrown(stack) ==
    IF stack = <<>> THEN <<"threw">>
    ELSE IF TryOf(Head(stack)) = "fetchBalance" THEN <<"fb_catch">>
    ELSE IF TryOf(Head(stack)) = "handleForceBalance" THEN <<"hfb_catch">>
    ELSE IF TryOf(Head(stack)) = "dashboard" THEN <<"dash_catch">>
    ELSE UnwindRethrown(Tail(stack))

\* updateAccountsCache has no catch block: a throw inside it goes on to its
\* caller's
RECURSIVE UnwindPastAccounts(_)
UnwindPastAccounts(stack) ==
    IF stack = <<>> THEN <<"threw">>
    ELSE IF TryOf(Head(stack)) = "fetchBalance" THEN <<"fb_catch">>
    ELSE IF TryOf(Head(stack)) = "handleGetBalance" THEN <<"hgb_catch">>
    ELSE IF TryOf(Head(stack)) = "handleForceBalance" THEN <<"hfb_catch">>
    ELSE IF TryOf(Head(stack)) = "handlePercentageChange" THEN <<"hpc_catch">>
    ELSE IF TryOf(Head(stack)) = "dashboard" THEN <<"dash_catch">>
    ELSE IF /\ TryOf(Head(stack)) = "updater"
            /\ Head(stack) \notin {"uac_afterAuths", "uac_accounts", "uac_balance",
                                    "uac_updateOne"}
         THEN Tail(stack)
    ELSE UnwindPastAccounts(Tail(stack))

\* the stack after a throw at its top: the frames without a try block are
\* left; with no catch on the stack the rejection reaches whoever awaited the
\* operation
RECURSIVE Unwind(_)
Unwind(stack) ==
    IF stack = <<>> THEN <<"threw">>
    ELSE IF TryOf(Head(stack)) = "fetchBalance" THEN <<"fb_catch">>
    ELSE IF TryOf(Head(stack)) = "handleGetBalance" THEN <<"hgb_catch">>
    ELSE IF TryOf(Head(stack)) = "handleForceBalance" THEN <<"hfb_catch">>
    ELSE IF TryOf(Head(stack)) = "handlePercentageChange" THEN <<"hpc_catch">>
    ELSE IF TryOf(Head(stack)) = "dashboard" THEN <<"dash_catch">>
    ELSE IF TryOf(Head(stack)) = "updater" THEN Tail(stack)
    ELSE Unwind(Tail(stack))

\* a failure reaches p at its current label: it is counted and logged
Fails(p) ==
    /\ rejected' = [rejected EXCEPT ![p] = @ + 1]
    /\ log' = [log EXCEPT ![p] = Append(@, Head(pc[p]))]

\* p starts the operation or calls the function called name
Logs(p, name) ==
    /\ log' = [log EXCEPT ![p] = Append(@, name)]
    /\ UNCHANGED rejected

\* ------------------------------------------------------------ limiters ----
Limiters == {"limiter", "marketLimiter"}

\* both limiters with half their spacing
minTimeHalved(l) == IF l = "limiter" THEN 60 ELSE 25

\* new Bottleneck({ minTime: 120 | 50, ... })
minTime(l) == IF l = "limiter" THEN 120 ELSE 50

\* both limiters with room for two calls
maxConcurrentTwo(l) == 2

\* new Bottleneck({ ..., maxConcurrent: 1 })
maxConcurrent(l) == 1

\* every call scheduled on the account limiter
LimiterOfAccountOnly(kind) == "limiter"

\* the limiter each kind of brokerage call is scheduled on
LimiterOf(kind) ==
    IF kind \in {"token", "accountNumbers", "accounts", "balance", "positions"}
    THEN "limiter" ELSE "marketLimiter"

\* a request to the brokerage: token is the refresh token of a token exchange
\* and the bearer token of the others
Request(kind, owner, acct, token) ==
    [kind |-> kind, owner |-> owner, acct |-> acct, token |-> token]

\* the calls reqs gives limiter l, numbered after the ones l was given before
Calls(p, reqs, l) ==
    LET s == SelectSeq(reqs, LAMBDA r : LimiterOf(r.kind) = l) IN
    [i \in 1..Len(s) |->
        [seq |-> nextSeq[l] + i, proc |-> p, kind |-> s[i].kind,
         owner |-> s[i].owner, acct |-> s[i].acct, token |-> s[i].token]]

CallIds(p, reqs) ==
    UNION {{<<l, Calls(p, reqs, l)[i].seq>> : i \in 1..Len(Calls(p, reqs, l))} :
           l \in Limiters}

\* limiter.schedule(() => fetch(...)) for each request of reqs, in order: each
\* call joins the queue of its limiter
Schedule(p, reqs) ==
    /\ queue' = [l \in Limiters |-> queue[l] \o Calls(p, reqs, l)]
    /\ nextSeq' = [l \in Limiters |-> nextSeq[l] + Len(Calls(p, reqs, l))]
    /\ UNCHANGED <<running, lastStart, lastGap, lastSeq, launched, hung>>

\* a timeout: every call in flight settles
SettlesAnyway(l, c) == c \in running[l]

\* the call of limiter l in flight whose fetch settles
Settles(l, c) == c \in running[l] /\ <<l, c.seq>> \notin hung

\* the call of limiter l in flight whose fetch settles and whose result p awaits
Awaited(p, l, c) == Settles(l, c) /\ c.proc = p /\ <<l, c.seq>> \in awaiting[p]

\* the call leaves the limiter: its fetch has settled
Leave(l, c) ==
    /\ running' = [running EXCEPT ![l] = @ \ {c}]
    /\ UNCHANGED <<queue, lastStart, lastGap, nextSeq, lastSeq, launched, hung>>

\* the call leaves the limiter and the calls of reqs are scheduled
LeaveAndSchedule(p, l, c, reqs) ==
    /\ running' = [running EXCEPT ![l] = @ \ {c}]
    /\ queue' = [k \in Limiters |-> queue[k] \o Calls(p, reqs, k)]
    /\ nextSeq' = [k \in Limiters |-> nextSeq[k] + Len(Calls(p, reqs, k))]
    /\ UNCHANGED <<lastStart, lastGap, lastSeq, launched, hung>>

\* the newest queued call first
NextJobNewest(q) == Len(q)

\* which queued call the limiter launches next (equal priorities: the oldest)
NextJob(q) == 1

\* The limiter launches its next call: fewer than maxConcurrent calls are in
\* flight, and the launch waits until minTime after the previous launch.
Dispatch(l) ==
    /\ Settled
    /\ queue[l] # <<>>
    /\ Cardinality(running[l]) < maxConcurrent(l)
    /\ LET k == NextJob(queue[l])
           c == queue[l][k]
           t == IF lastStart[l] = -1 THEN now ELSE Max({now, lastStart[l] + minTime(l)})
       IN /\ now' = t
          /\ running' = [running EXCEPT ![l] = @ \cup {c}]
          /\ queue' = [queue EXCEPT ![l] =
                          SubSeq(@, 1, k - 1) \o SubSeq(@, k + 1, Len(@))]
          /\ lastGap' = [lastGap EXCEPT ![l] =
                          IF lastStart[l] = -1 THEN -1 ELSE t - lastStart[l]]
          /\ lastStart' = [lastStart EXCEPT ![l] = t]
          /\ lastSeq' = [lastSeq EXCEPT ![l] = c.seq]
          /\ launched' = [launched EXCEPT ![l] = @ \cup {c.kind}]
    /\ UNCHANGED <<envVars, lastFire, storeVars, upstreamVars, nextSeq, hung, awaiting, pc,
                   histVars, balanceVars, authVars, cacheVars, result, dash>>

\* a call whose result nobody awaits is never taken out of its limiter
CompleteDroppedKeepsSlot(l) ==
    \E c \in running[l] :
        /\ Settled /\ Settles(l, c)
        /\ <<l, c.seq>> \notin awaiting[c.proc]
        /\ UNCHANGED vars

\* A call in flight settles and nobody awaits its result any more: the
\* Promise.all that held it was rejected by an earlier failure.
CompleteDropped(l) ==
    \E c \in running[l] :
        /\ Settled /\ Settles(l, c)
        /\ <<l, c.seq>> \notin awaiting[c.proc]
        /\ Leave(l, c)
        /\ UNCHANGED <<outerVars, storeVars, upstreamVars, awaiting, pc, histVars,
                       balanceVars, authVars, cacheVars, result, dash>>

\* The fetch of a call in flight hangs: it never settles.  No timeout and no
\* cancellation is set on the fetch or on the limiter, so the call stays in
\* flight for good.
Hang(l) ==
    \E c \in running[l] :
        /\ Settled /\ Settles(l, c)
        /\ hung' = hung \cup {<<l, c.seq>>}
        /\ UNCHANGED <<outerVars, storeVars, upstreamVars, queue, running, lastStart,
                       lastGap, nextSeq, lastSeq, launched, awaiting, pc, histVars,
                       balanceVars, authVars, cacheVars, result, dash>>

\* -------------------------------------------------------------- getAuths ----
SafetyMargin == 30
\* api_server of the k-th grant: the brokerage moves accounts between servers
ApiServer(k) == IF k % 2 = 0 THEN "api01" ELSE "api02"

\* the comparison turned round: isAfter for isBefore
IsBeforeInverted(a, b) == a > b

\* the comparison never true: no credential is ever found expired
IsBeforeNever(a, b) == FALSE

\* dayjs.utc(a).isBefore(dayjs.utc(b))
IsBefore(a, b) == a < b

\* the for-loop's test: is this credential to be refreshed now?
Expired(a, t) == IsBefore(a.expiry, t)

\* first position >= k of list whose credential is expired at t (0: none)
NextExpired(list, k, t) ==
    LET S == {i \in k..Len(list) : Expired(list[i], t)} IN
    IF S = {} THEN 0 ELSE Min(S)

\* getAuths' for-loop from position k, up to its next await: the credentials
\* that are not expired are passed over; the first expired one has its token
\* exchange scheduled; with none left the function returns the list.
\* counts and tests are the histories of the invocation so far.
AuthLoop(p, list, k, counts, tests) ==
    LET n == NextExpired(list, k, now)
        last == IF n = 0 THEN Len(list) ELSE n
        tested == [i \in 1..Len(list) |->
                      IF i >= k /\ i <= last
                      THEN (IF list[i].expiry < now THEN "before"
                            ELSE IF list[i].expiry = now THEN "equal" ELSE "after")
                      ELSE tests[i]]
    IN
    /\ checked' = [checked EXCEPT ![p] = tested]
    /\ IF n = 0
       THEN /\ pc' = [pc EXCEPT ![p] = Tail(@)]
            /\ idx' = [idx EXCEPT ![p] = Len(list) + 1]
            /\ tokenCalls' = [tokenCalls EXCEPT ![p] = counts]
            /\ awaiting' = [awaiting EXCEPT ![p] = {}]
            /\ UNCHANGED limiterVars
       ELSE LET reqs == <<Request("token", list[n].owner, "none", list[n].refreshToken)>>
            IN /\ pc' = [pc EXCEPT ![p] = <<"ga_grant">> \o Tail(@)]
               /\ idx' = [idx EXCEPT ![p] = n]
               /\ tokenCalls' = [tokenCalls EXCEPT ![p] = [counts EXCEPT ![n] = @ + 1]]
               /\ awaiting' = [awaiting EXCEPT ![p] = CallIds(p, reqs)]
               /\ Schedule(p, reqs)

\* collection.find({ auth: true }).toArray() completes; the loop starts
GetAuthsFind(p) ==
    /\ Settled
    /\ At(p, "ga_find")
    /\ authList' = [authList EXCEPT ![p] = auths]
    /\ AuthLoop(p, auths, 1, [i \in 1..Len(auths) |-> 0],
                [i \in 1..Len(auths) |-> "no"])
    /\ UNCHANGED <<outerVars, storeVars, upstreamVars, histVars, balanceVars, grant,
                   cacheVars, result, dash>>

\* The token exchange answers 200 with a grant: the brokerage issues a new
\* token pair; the in-memory credential takes the grant's values and
\* expiry = now + (expires_in - 30) seconds; updateOne is sent.
GrantOk(p) ==
    \E c \in running["limiter"], life \in lifetimesOffered :
        /\ Settled
        /\ At(p, "ga_grant") /\ c.kind = "token" /\ Awaited(p, "limiter", c)
        /\ Leave("limiter", c)
        /\ issued' = issued + 1
        /\ grant' = [grant EXCEPT ![p] =
                        [access_token |-> issued + 1, refresh_token |-> issued + 1,
                         api_server |-> ApiServer(issued + 1), expires_in |-> life, at |-> now]]
        /\ authList' = [authList EXCEPT ![p] = [@ EXCEPT ![idx[p]] =
                        [owner |-> @.owner,
                         accessToken |-> issued + 1,
                         refreshToken |-> issued + 1,
                         uri |-> ApiServer(issued + 1),
                         expiry |-> now + (life - SafetyMargin) * MsPerSecond]]]
        /\ awaiting' = [awaiting EXCEPT ![p] = {}]
        /\ pc' = [pc EXCEPT ![p] = <<"ga_updateOne">> \o Tail(@)]
        /\ UNCHANGED <<outerVars, storeVars, direct, histVars, balanceVars, idx,
                       tokenCalls, checked, cacheVars, result, dash>>

\* a non-success answer is logged and passed over: getAuths returns the list
\* all the same
GrantFailedSkipped(p) ==
    \E c \in running["limiter"] :
        /\ Settled
        /\ At(p, "ga_grant") /\ c.kind = "token" /\ Awaited(p, "limiter", c)
        /\ c.kind \in failingKinds
        /\ Leave("limiter", c)
        /\ awaiting' = [awaiting EXCEPT ![p] = {}]
        /\ Fails(p)
        /\ pc' = [pc EXCEPT ![p] = Tail(@)]
        /\ UNCHANGED <<outerVars, storeVars, upstreamVars, balanceVars, authVars,
                       cacheVars, result, dash>>

\* The token exchange answers with a non-success status: getQuestradeRefreshTokenGrant
\* throws the response, and getAuths, which does not catch, is rejected.
GrantFailed(p) ==
    \E c \in running["limiter"] :
        /\ Settled
        /\ At(p, "ga_grant") /\ c.kind = "token" /\ Awaited(p, "limiter", c)
        /\ c.kind \in failingKinds
        /\ Leave("limiter", c)
        /\ awaiting' = [awaiting EXCEPT ![p] = {}]
        /\ Fails(p)
        /\ pc' = [pc EXCEPT ![p] = Unwind(@)]
        /\ UNCHANGED <<outerVars, storeVars, upstreamVars, balanceVars, authVars,
                       cacheVars, result, dash>>

\* indices of the credential documents matching { owner: o }
MatchOwner(o) == {i \in 1..Len(auths) : auths[i].owner = o}

\* the update sets the new tokens and server but leaves the stored expiry
UpsertAuthKeepsExpiry(a) ==
    IF MatchOwner(a.owner) = {} THEN Append(auths, a)
    ELSE LET j == Min(MatchOwner(a.owner)) IN
         [auths EXCEPT ![j] = [a EXCEPT !.expiry = auths[j].expiry]]

\* the refreshed credential is inserted whether or not the owner has one
UpsertAuthInserts(a) == Append(auths, a)

\* collection.updateOne({ owner }, { $set: auth }, { upsert: true })
UpsertAuth(a) ==
    IF MatchOwner(a.owner) = {} THEN Append(auths, a)
    ELSE [auths EXCEPT ![Min(MatchOwner(a.owner))] = a]

\* the loop goes on without the refreshed credential having been stored
GetAuthsUpdateOneSkipped(p) ==
    /\ Settled
    /\ At(p, "ga_updateOne")
    /\ auths' = auths
    /\ AuthLoop(p, authList[p], idx[p] + 1, tokenCalls[p], checked[p])
    /\ UNCHANGED <<outerVars, dailyBalances, lastWrite, caches, upstreamVars, histVars,
                   balanceVars, authList, grant, cacheVars, result, dash>>

\* updateOne completes: the refreshed credential is stored; the loop goes on
GetAuthsUpdateOne(p) ==
    /\ Settled
    /\ At(p, "ga_updateOne")
    /\ auths' = UpsertAuth(authList[p][idx[p]])
    /\ AuthLoop(p, authList[p], idx[p] + 1, tokenCalls[p], checked[p])
    /\ UNCHANGED <<outerVars, dailyBalances, lastWrite, caches, upstreamVars, histVars,
                   balanceVars, authList, grant, cacheVars, result, dash>>

\* a caller outside the subsystem calls getAuths() and awaits the list
CallGetAuths(p) ==
    /\ Settled
    /\ pc[p] = <<"idle">>
    /\ pc' = [pc EXCEPT ![p] = <<"ga_find", "ga_caller">>]
    /\ UNCHANGED <<outerVars, storeVars, upstreamVars, limiterVars, awaiting, histVars,
                   balanceVars, authVars, cacheVars, result, dash>>

\* getAuths resolved: the caller has the list
GetAuthsReturned(p) ==
    /\ At(p, "ga_caller")
    /\ pc' = [pc EXCEPT ![p] = <<"returned">>]
    /\ UNCHANGED dash
    /\ result' = [result EXCEPT ![p] = [status |-> "returned", body |-> authList[p]]]
    /\ UNCHANGED <<outerVars, storeVars, upstreamVars, limiterVars, awaiting, histVars,
                   balanceVars, authVars, cacheVars>>

\* ------------------------------------------------------ daily snapshots ----
\* indices of the DailyBalance documents matching { date: d }
MatchDate(d) == {i \in 1..Len(dailyBalances) : dailyBalances[i].date = d}

\* collection.findOne({ date: d }): the first match in natural order (<<>>: null)
FindOneByDate(d) ==
    IF MatchDate(d) = {} THEN <<>> ELSE <<dailyBalances[Min(MatchDate(d))]>>

\* getTodayBalance's test of the document findOne returned
IsFresh(doc, t) == DiffMinutes(doc.date, t) <= 15

\* getTodayBalance() is called: the filter date is computed, findOne is sent
CallGetTodayBalance(p, ret) ==
    /\ todayDate' = [todayDate EXCEPT ![p] = StartOfDayLocal(now, tzOffset)]
    /\ pc' = [pc EXCEPT ![p] = <<"gtb_findOne">> \o ret]

\* getTodayBalance's findOne completes: the balance of the document if there
\* is one and it passes the test, null otherwise
GetTodayBalance(p) ==
    /\ Settled
    /\ At(p, "gtb_findOne")
    /\ LET found == FindOneByDate(todayDate[p]) IN
       returned' = [returned EXCEPT ![p] =
                       IF found # <<>> /\ IsFresh(found[1], now)
                       THEN <<found[1].balance>> ELSE <<>>]
    /\ pc' = [pc EXCEPT ![p] = Tail(@)]
    /\ UNCHANGED <<outerVars, storeVars, upstreamVars, limiterVars, awaiting, histVars,
                   balance, todayDate, current, authVars, cacheVars, result, dash>>

\* indices of the snapshots of the greatest date
LatestIdx ==
    {i \in 1..Len(dailyBalances) :
        \A j \in 1..Len(dailyBalances) : dailyBalances[j].date <= dailyBalances[i].date}

\* the documents of the investments collection: the snapshots, the
\* credentials and the cache documents are all kept in it
Investments == dailyBalances \o auths \o caches

\* sort: { date: -1 } puts b before a: a document without the field sorts as
\* null, and null sorts below every date
DateBelow(a, b) ==
    /\ "date" \in DOMAIN b
    /\ ("date" \notin DOMAIN a \/ a.date < b.date)

\* indices of the documents findOne({}, { sort: { date: -1 } }) may return:
\* those no other document is put before
FirstByDateDescending ==
    {i \in 1..Len(Investments) :
        \A j \in 1..Len(Investments) : ~DateBelow(Investments[i], Investments[j])}

\* latest?.balance || 0
BalanceOrZero(doc) == IF "balance" \in DOMAIN doc THEN doc.balance ELSE 0

\* getLatestBalance's findOne completes, with documents without a date put
\* before the dated ones
GetLatestBalanceNullsFirst(p) ==
    /\ Settled
    /\ At(p, "glb_findOne")
    /\ \/ /\ Investments = <<>>
          /\ returned' = [returned EXCEPT ![p] = <<0>>]
       \/ \E i \in 1..Len(Investments) :
             /\ \A j \in 1..Len(Investments) :
                    "date" \in DOMAIN Investments[i] => "date" \in DOMAIN Investments[j]
             /\ \A j \in 1..Len(Investments) :
                    ("date" \in DOMAIN Investments[i] /\ "date" \in DOMAIN Investments[j])
                        => Investments[j].date <= Investments[i].date
             /\ returned' = [returned EXCEPT ![p] = <<BalanceOrZero(Investments[i])>>]
    /\ pc' = [pc EXCEPT ![p] = Tail(@)]
    /\ UNCHANGED <<outerVars, storeVars, upstreamVars, limiterVars, awaiting, histVars,
                   balance, todayDate, current, authVars, cacheVars, result, dash>>

\* getLatestBalance's findOne({}, { sort: { date: -1 } }) completes:
\* latest?.balance || 0.  Among several documents that sort first the store
\* returns any one.
GetLatestBalance(p) ==
    /\ Settled
    /\ At(p, "glb_findOne")
    /\ \/ /\ Investments = <<>>
          /\ returned' = [returned EXCEPT ![p] = <<0>>]
       \/ \E i \in FirstByDateDescending :
             returned' = [returned EXCEPT ![p] = <<BalanceOrZero(Investments[i])>>]
    /\ pc' = [pc EXCEPT ![p] = Tail(@)]
    /\ UNCHANGED <<outerVars, storeVars, upstreamVars, limiterVars, awaiting, histVars,
                   balance, todayDate, current, authVars, cacheVars, result, dash>>

\* updateDailyBalance(b) is called: todayDate is computed, findOne is sent
CallUpdateDailyBalance(p, b, ret) ==
    /\ Logs(p, "updateDailyBalance")
    /\ balance' = [balance EXCEPT ![p] = b]
    /\ todayDate' = [todayDate EXCEPT ![p] = StartOfDayLocal(now, tzOffset)]
    /\ pc' = [pc EXCEPT ![p] = <<"udb_findOne">> \o ret]

\* updateDailyBalance's findOne never returns a document
UpdateDailyBalanceFindNever(p) ==
    /\ Settled
    /\ At(p, "udb_findOne")
    /\ current' = [current EXCEPT ![p] = FALSE]
    /\ pc' = [pc EXCEPT ![p] = <<"udb_write">> \o Tail(@)]
    /\ UNCHANGED <<outerVars, storeVars, upstreamVars, limiterVars, awaiting, histVars,
                   balance, todayDate, returned, authVars, cacheVars, result, dash>>

\* updateDailyBalance's findOne completes; updateOne or insertOne is sent
UpdateDailyBalanceFind(p) ==
    /\ Settled
    /\ At(p, "udb_findOne")
    /\ current' = [current EXCEPT ![p] = FindOneByDate(todayDate[p]) # <<>>]
    /\ pc' = [pc EXCEPT ![p] = <<"udb_write">> \o Tail(@)]
    /\ UNCHANGED <<outerVars, storeVars, upstreamVars, limiterVars, awaiting, histVars,
                   balance, todayDate, returned, authVars, cacheVars, result, dash>>

\* collection.updateOne({ date: d }, { $set: { balance: b } }): the first match
SetBalance(d, b) ==
    IF MatchDate(d) = {} THEN dailyBalances
    ELSE [dailyBalances EXCEPT ![Min(MatchDate(d))].balance = b]

\* collection.insertOne({ date: d, balance: b })
InsertBalance(d, b) == Append(dailyBalances, [date |-> d, balance |-> b])

\* updateDailyBalance's write completes: updateOne if findOne had returned a
\* document, insertOne if it had returned null
UpdateDailyBalanceWrite(p) ==
    /\ Settled
    /\ At(p, "udb_write")
    /\ IF current[p]
       THEN /\ dailyBalances' = SetBalance(todayDate[p], balance[p])
            /\ lastWrite' = IF MatchDate(todayDate[p]) = {} THEN lastWrite
                            ELSE [lastWrite EXCEPT ![Min(MatchDate(todayDate[p]))] = now]
       ELSE /\ dailyBalances' = InsertBalance(todayDate[p], balance[p])
            /\ lastWrite' = Append(lastWrite, now)
    /\ pc' = [pc EXCEPT ![p] = Tail(@)]
    /\ UNCHANGED <<outerVars, auths, caches, upstreamVars, limiterVars, awaiting,
                   histVars, balanceVars, authVars, cacheVars, result, dash>>

\* ---------------------------------------------------- handleGetBalance ----
\* GET /investments/balance arrives: handleGetBalance calls getTodayBalance
StartGetBalance(p) ==
    /\ Settled
    /\ pc[p] = <<"idle">>
    /\ CallGetTodayBalance(p, <<"hgb_today">>)
    /\ Logs(p, "handleGetBalance")
    /\ UNCHANGED <<outerVars, storeVars, upstreamVars, limiterVars, awaiting,
                   balance, current, returned, authVars, cacheVars, result, dash>>

\* balance = (await getTodayBalance()) || 0: a positive balance is written
\* back with updateDailyBalance, otherwise getLatestBalance is called
HandleGetBalanceToday(p) ==
    /\ At(p, "hgb_today")
    /\ LET b == IF returned[p] = <<>> THEN 0 ELSE returned[p][1] IN
       IF b > 0
       THEN CallUpdateDailyBalance(p, b, <<"hgb_afterUpdate">>)
       ELSE /\ balance' = [balance EXCEPT ![p] = b]
            /\ pc' = [pc EXCEPT ![p] = <<"glb_findOne", "hgb_latest">>]
            /\ UNCHANGED <<todayDate, histVars>>
    /\ UNCHANGED <<outerVars, storeVars, upstreamVars, limiterVars, awaiting,
                   current, returned, authVars, cacheVars, result, dash>>

\* updateDailyBalance resolved: return { balance, success: true }
HandleGetBalanceUpdated(p) ==
    /\ At(p, "hgb_afterUpdate")
    /\ pc' = [pc EXCEPT ![p] = <<"done">>]
    /\ UNCHANGED dash
    /\ result' = [result EXCEPT ![p] =
                     [status |-> "returned",
                      body |-> [balance |-> balance[p], success |-> TRUE]]]
    /\ UNCHANGED <<outerVars, storeVars, upstreamVars, limiterVars, awaiting, histVars,
                   balanceVars, authVars, cacheVars>>

\* balance = await getLatestBalance(); return { balance, success: true }
HandleGetBalanceLatest(p) ==
    /\ At(p, "hgb_latest")
    /\ balance' = [balance EXCEPT ![p] = returned[p][1]]
    /\ pc' = [pc EXCEPT ![p] = <<"done">>]
    /\ UNCHANGED dash
    /\ result' = [result EXCEPT ![p] =
                     [status |-> "returned",
                      body |-> [balance |-> returned[p][1], success |-> TRUE]]]
    /\ UNCHANGED <<outerVars, storeVars, upstreamVars, limiterVars, awaiting, histVars,
                   todayDate, current, returned, authVars, cacheVars>>

\* handleGetBalance's catch block: return { balance: 0, success: false }
HandleGetBalanceCatch(p) ==
    /\ At(p, "hgb_catch")
    /\ pc' = [pc EXCEPT ![p] = <<"done">>]
    /\ UNCHANGED dash
    /\ result' = [result EXCEPT ![p] =
                     [status |-> "returned",
                      body |-> [balance |-> 0, success |-> FALSE]]]
    /\ UNCHANGED <<outerVars, storeVars, upstreamVars, limiterVars, awaiting, histVars,
                   balanceVars, authVars, cacheVars>>

\* the labels at which an operation of the collection is in flight
StoreLabels ==
    {"ga_find", "ga_updateOne", "gtb_findOne", "glb_findOne", "gyb_findOne", "ghd_find",
     "udb_findOne", "udb_write", "uac_updateOne", "usc_updateOne", "uerc_updateOne",
     "dash_accounts", "dash_accountsAgain", "dash_symbols", "dash_symbolsAgain",
     "dash_rate", "dash_rateAgain"}

\* An operation of the collection fails: the driver rejects, and the throw
\* reaches the nearest catch.  The operation has no effect on the collection.
StoreFailed(p) ==
    /\ Settled
    /\ Head(pc[p]) \in StoreLabels
    /\ "store" \in failingKinds
    /\ Fails(p)
    /\ pc' = [pc EXCEPT ![p] = Unwind(@)]
    /\ UNCHANGED <<outerVars, storeVars, upstreamVars, limiterVars, awaiting,
                   balanceVars, authVars, cacheVars, result, dash>>

\* ---------------------------------------------------------- aggregation ----
\* getAccountNumbers(auth) for each credential of list, in order
AccountNumbersRequests(list) ==
    [i \in 1..Len(list) |->
        Request("accountNumbers", list[i].owner, "none", list[i].accessToken)]

\* getRemoteAccountBalance(auth, accountNumber) for each account listed for o
BalanceRequests(o, token) ==
    [i \in 1..Len(accountsOf[o]) |-> Request("balance", o, accountsOf[o][i].number, token)]

\* Promise.all(auths.map(auth => getRemoteTotalBalance(auth))) is awaited:
\* every getRemoteTotalBalance has scheduled its account-numbers call.  With
\* no credential the Promise.all of nothing resolves at once.
CallAggregate(p, ret) ==
    LET reqs == AccountNumbersRequests(authList[p]) IN
    /\ balance' = [balance EXCEPT ![p] = 0]
    /\ awaiting' = [awaiting EXCEPT ![p] = CallIds(p, reqs)]
    /\ Schedule(p, reqs)
    /\ pc' = [pc EXCEPT ![p] = IF reqs = <<>> THEN ret ELSE <<"agg_wait">> \o ret]

\* An account-numbers call is answered with the list: its
\* getRemoteTotalBalance schedules one balance call per account.  This also
\* happens when the Promise.all above it has already been rejected; the
\* balance calls are then awaited by nobody.
AccountNumbersOk(p) ==
    \E c \in running["limiter"] :
        /\ Settled
        /\ c.kind = "accountNumbers" /\ c.proc = p /\ Settles("limiter", c)
        /\ LET reqs == BalanceRequests(c.owner, c.token)
               rest == (awaiting[p] \ {<<"limiter", c.seq>>}) \cup CallIds(p, reqs)
           IN /\ LeaveAndSchedule(p, "limiter", c, reqs)
              /\ IF Awaited(p, "limiter", c)
                 THEN /\ awaiting' = [awaiting EXCEPT ![p] = rest]
                      /\ pc' = [pc EXCEPT ![p] = IF rest = {} THEN Tail(@) ELSE @]
                 ELSE UNCHANGED <<awaiting, pc>>
        /\ UNCHANGED <<outerVars, storeVars, upstreamVars, histVars, balanceVars,
                       authVars, cacheVars, result, dash>>

\* the sum is the balance that arrived last
AggregateBalanceLast(p) ==
    \E c \in running["limiter"] :
        /\ Settled
        /\ At(p, "agg_wait") /\ c.kind = "balance" /\ Awaited(p, "limiter", c)
        /\ Leave("limiter", c)
        /\ balance' = [balance EXCEPT ![p] = equity[c.acct]]
        /\ awaiting' = [awaiting EXCEPT ![p] = @ \ {<<"limiter", c.seq>>}]
        /\ pc' = [pc EXCEPT ![p] =
                     IF awaiting[p] = {<<"limiter", c.seq>>} THEN Tail(@) ELSE @]
        /\ UNCHANGED <<outerVars, storeVars, upstreamVars, histVars, todayDate, current,
                       returned, authVars, cacheVars, result, dash>>

\* A balance call of the aggregation is answered: the account's CAD total
\* equity joins the sum; when no call is outstanding the Promise.all resolves.
AggregateBalanceOk(p) ==
    \E c \in running["limiter"] :
        /\ Settled
        /\ At(p, "agg_wait") /\ c.kind = "balance" /\ Awaited(p, "limiter", c)
        /\ Leave("limiter", c)
        /\ balance' = [balance EXCEPT ![p] = @ + equity[c.acct]]
        /\ awaiting' = [awaiting EXCEPT ![p] = @ \ {<<"limiter", c.seq>>}]
        /\ pc' = [pc EXCEPT ![p] =
                     IF awaiting[p] = {<<"limiter", c.seq>>} THEN Tail(@) ELSE @]
        /\ UNCHANGED <<outerVars, storeVars, upstreamVars, histVars, todayDate, current,
                       returned, authVars, cacheVars, result, dash>>

\* a failed call is scheduled again and awaited as before
CallFailedRetried(p) ==
    \E l \in Limiters : \E c \in running[l] :
        /\ Settled
        /\ c.kind # "token" /\ Awaited(p, l, c)
        /\ c.kind \in failingKinds
        /\ LET reqs == <<Request(c.kind, c.owner, c.acct, c.token)>> IN
           /\ LeaveAndSchedule(p, l, c, reqs)
           /\ awaiting' = [awaiting EXCEPT ![p] = (@ \ {<<l, c.seq>>}) \cup CallIds(p, reqs)]
        /\ Fails(p)
        /\ UNCHANGED <<outerVars, storeVars, upstreamVars, pc, balanceVars, authVars,
                       cacheVars, result, dash>>

\* a failed call counts as nothing: whoever awaits it goes on with the rest
CallFailedPartial(p) ==
    \E l \in Limiters : \E c \in running[l] :
        /\ Settled
        /\ c.kind # "token" /\ Awaited(p, l, c)
        /\ c.kind \in failingKinds
        /\ Leave(l, c)
        /\ awaiting' = [awaiting EXCEPT ![p] = @ \ {<<l, c.seq>>}]
        /\ Fails(p)
        /\ pc' = [pc EXCEPT ![p] =
                     IF awaiting[p] = {<<l, c.seq>>} /\ At(p, "agg_wait") THEN Tail(@)
                     ELSE IF At(p, "agg_wait") THEN @ ELSE Unwind(@)]
        /\ UNCHANGED <<outerVars, storeVars, upstreamVars, balanceVars, authVars,
                       cacheVars, result, dash>>

\* An awaited brokerage call other than a token exchange is answered with a
\* non-success status: its function throws, which rejects every Promise.all
\* and every await above it up to the nearest catch.  The other calls the
\* operation was awaiting stay scheduled.
CallFailed(p) ==
    \E l \in Limiters : \E c \in running[l] :
        /\ Settled
        /\ c.kind # "token" /\ Awaited(p, l, c)
        /\ c.kind \in failingKinds
        /\ Leave(l, c)
        /\ awaiting' = [awaiting EXCEPT ![p] = {}]
        /\ Fails(p)
        /\ pc' = [pc EXCEPT ![p] = Unwind(@)]
        /\ UNCHANGED <<outerVars, storeVars, upstreamVars, balanceVars, authVars,
                       cacheVars, result, dash>>

\* --------------------------------------------------------- fetchBalance ----
\* Config.timezone ('America/Edmonton') as an offset from UTC
CronZoneOffset == 0 - 7 * MsPerHour

\* the period of '*/5 7-16 * * *'
CronEvery == 5 * MsPerMinute

\* the latest five-minute mark of the cron's zone at or before t
CronMark(t) == ((t + CronZoneOffset) \div CronEvery) * CronEvery - CronZoneOffset

\* the hour of t in the cron's zone
CronHour(t) == ((t + CronZoneOffset) % MsPerDay) \div MsPerHour

\* '*/5 7-16 * * *': every fifth minute of the hours 7 to 16
OnSchedule(t) == CronHour(CronMark(t)) >= 7 /\ CronHour(CronMark(t)) <= 16

\* The cron job fires for a schedule mark it has not yet fired for and calls
\* fetchBalance, whether or not an earlier run is still in progress;
\* fetchBalance calls getAuths.
CronFire(p) ==
    /\ Settled
    /\ pc[p] = <<"idle">>
    /\ OnSchedule(now) /\ CronMark(now) > lastFire
    /\ lastFire' = CronMark(now)
    /\ Logs(p, "fetchBalance")
    /\ pc' = [pc EXCEPT ![p] = <<"ga_find", "fb_afterAuths">>]
    /\ UNCHANGED <<now, envVars, storeVars, upstreamVars, limiterVars, awaiting,
                   balanceVars, authVars, cacheVars, result, dash>>

\* getAuths resolved: the aggregation starts
FetchBalanceAuths(p) ==
    /\ At(p, "fb_afterAuths")
    /\ CallAggregate(p, <<"fb_afterTotal">>)
    /\ UNCHANGED <<outerVars, storeVars, upstreamVars, histVars, todayDate, current,
                   returned, authVars, cacheVars, result, dash>>

\* updateAccountsCache() is called: it calls getAuths
CallUpdateAccountsCache(p, ret) ==
    /\ Logs(p, "updateAccountsCache")
    /\ pc' = [pc EXCEPT ![p] = <<"ga_find", "uac_afterAuths">> \o ret]

\* the total is stored with updateDailyBalance whatever it is
FetchBalanceTotalAlways(p) ==
    /\ At(p, "fb_afterTotal")
    /\ CallUpdateDailyBalance(p, balance[p], <<"fb_afterUpdate">>)
    /\ UNCHANGED <<outerVars, storeVars, upstreamVars, limiterVars, awaiting,
                   current, returned, authVars, cacheVars, result, dash>>

\* the aggregation resolved with the total: a positive total is stored with
\* updateDailyBalance; otherwise the cache updates start
FetchBalanceTotal(p) ==
    /\ At(p, "fb_afterTotal")
    /\ IF balance[p] > 0
       THEN CallUpdateDailyBalance(p, balance[p], <<"fb_afterUpdate">>)
       ELSE /\ CallUpdateAccountsCache(p, <<"fb_afterAccounts">>)
            /\ UNCHANGED <<balance, todayDate>>
    /\ UNCHANGED <<outerVars, storeVars, upstreamVars, limiterVars, awaiting,
                   current, returned, authVars, cacheVars, result, dash>>

\* updateDailyBalance resolved: updateAccountsCache is called
FetchBalanceUpdated(p) ==
    /\ At(p, "fb_afterUpdate")
    /\ CallUpdateAccountsCache(p, <<"fb_afterAccounts">>)
    /\ UNCHANGED <<outerVars, storeVars, upstreamVars, limiterVars, awaiting,
                   balanceVars, authVars, cacheVars, result, dash>>

\* updateAccountsCache resolved: updateSymbolsCache is called; it calls getAuths
FetchBalanceAccounts(p) ==
    /\ At(p, "fb_afterAccounts")
    /\ Logs(p, "updateSymbolsCache")
    /\ pc' = [pc EXCEPT ![p] = <<"ga_find", "usc_afterAuths", "fb_afterSymbols">>]
    /\ UNCHANGED <<outerVars, storeVars, upstreamVars, limiterVars, awaiting,
                   balanceVars, authVars, cacheVars, result, dash>>

\* updateSymbolsCache resolved: updateExchangeRateCache is called; it sends
\* its fetch at once, outside the limiters
FetchBalanceSymbols(p) ==
    /\ At(p, "fb_afterSymbols")
    /\ Logs(p, "updateExchangeRateCache")
    /\ direct' = direct \cup {[proc |-> p, kind |-> "exchangeRate"]}
    /\ pc' = [pc EXCEPT ![p] = <<"uerc_fetch", "fb_afterExchange">>]
    /\ UNCHANGED <<outerVars, storeVars, issued, limiterVars, awaiting,
                   balanceVars, authVars, cacheVars, result, dash>>

\* updateExchangeRateCache resolved: fetchBalance returns
FetchBalanceExchange(p) ==
    /\ At(p, "fb_afterExchange")
    /\ pc' = [pc EXCEPT ![p] = <<"done">>]
    /\ UNCHANGED dash
    /\ result' = [result EXCEPT ![p] = [status |-> "returned", body |-> <<>>]]
    /\ UNCHANGED <<outerVars, storeVars, upstreamVars, limiterVars, awaiting, histVars,
                   balanceVars, authVars, cacheVars>>

\* fetchBalance's catch block: the error is logged and fetchBalance returns
FetchBalanceCatch(p) ==
    /\ At(p, "fb_catch")
    /\ pc' = [pc EXCEPT ![p] = <<"done">>]
    /\ UNCHANGED dash
    /\ result' = [result EXCEPT ![p] = [status |-> "returned", body |-> <<>>]]
    /\ UNCHANGED <<outerVars, storeVars, upstreamVars, limiterVars, awaiting, histVars,
                   balanceVars, authVars, cacheVars>>

\* --------------------------------------------------- handleForceBalance ----
\* GET /investments/balance/force arrives: handleForceBalance calls getAuths
StartForceBalance(p) ==
    /\ Settled
    /\ pc[p] = <<"idle">>
    /\ Logs(p, "handleForceBalance")
    /\ pc' = [pc EXCEPT ![p] = <<"ga_find", "hfb_afterAuths">>]
    /\ UNCHANGED <<outerVars, storeVars, upstreamVars, limiterVars, awaiting,
                   balanceVars, authVars, cacheVars, result, dash>>

\* getAuths resolved: the aggregation starts
HandleForceBalanceAuths(p) ==
    /\ At(p, "hfb_afterAuths")
    /\ CallAggregate(p, <<"hfb_afterTotal">>)
    /\ UNCHANGED <<outerVars, storeVars, upstreamVars, histVars, todayDate, current,
                   returned, authVars, cacheVars, result, dash>>

\* the aggregation resolved: the total is also stored as today's snapshot
HandleForceBalanceTotalStores(p) ==
    /\ At(p, "hfb_afterTotal")
    /\ pc' = [pc EXCEPT ![p] = <<"done">>]
    /\ UNCHANGED dash
    /\ result' = [result EXCEPT ![p] =
                     [status |-> "returned",
                      body |-> [amount |-> balance[p], success |-> TRUE]]]
    /\ dailyBalances' = Append(dailyBalances, [date |-> StartOfDayLocal(now, tzOffset),
                                                balance |-> balance[p]])
    /\ lastWrite' = Append(lastWrite, now)
    /\ UNCHANGED <<outerVars, auths, caches, upstreamVars, limiterVars, awaiting, histVars,
                   balanceVars, authVars, cacheVars>>

\* the aggregation resolved: return { amount: total, success: true }
HandleForceBalanceTotal(p) ==
    /\ At(p, "hfb_afterTotal")
    /\ pc' = [pc EXCEPT ![p] = <<"done">>]
    /\ UNCHANGED dash
    /\ result' = [result EXCEPT ![p] =
                     [status |-> "returned",
                      body |-> [amount |-> balance[p], success |-> TRUE]]]
    /\ UNCHANGED <<outerVars, storeVars, upstreamVars, limiterVars, awaiting, histVars,
                   balanceVars, authVars, cacheVars>>

\* handleForceBalance's catch block: return { amount: 0, success: false }
HandleForceBalanceCatch(p) ==
    /\ At(p, "hfb_catch")
    /\ pc' = [pc EXCEPT ![p] = <<"done">>]
    /\ UNCHANGED dash
    /\ result' = [result EXCEPT ![p] =
                     [status |-> "returned",
                      body |-> [amount |-> 0, success |-> FALSE]]]
    /\ UNCHANGED <<outerVars, storeVars, upstreamVars, limiterVars, awaiting, histVars,
                   balanceVars, authVars, cacheVars>>

\* --------------------------------------------------------- cache updaters ----
\* indices of the singleton documents matching { type: t }
MatchType(t) == {i \in 1..Len(caches) : caches[i].type = t}

\* collection.updateOne({ type }, { $set: cache }, { upsert: true }) run on
\* its own: the first match is set, or the document is inserted
UpsertCache(doc) ==
    IF MatchType(doc.type) = {} THEN Append(caches, doc)
    ELSE [caches EXCEPT ![Min(MatchType(doc.type))] = doc]

\* The collections the upsert may leave.  The collection has no unique index
\* on type, so the store does not serialise the upserts of one type: an
\* upsert that was sent when nothing matched may have looked for its
\* document before a concurrent upsert inserted one, and then inserts too.
UpsertOutcomes(doc, missed) ==
    {UpsertCache(doc)} \cup (IF missed THEN {Append(caches, doc)} ELSE {})

\* getAccounts(auth)
AccountsRequest(a) == Request("accounts", a.owner, "none", a.accessToken)

\* the accounts listed for the credential at position a of p's list
AccountsAt(p, a) == IF a = 0 THEN <<>> ELSE accountsOf[authList[p][a].owner]

\* The updater's step has run up to its next await: n.labels is where it
\* waits, n.reqs the call it has scheduled there.  The cache document is
\* built, with updatedAt = new Date(), right before updateOne is sent.
Proceed(p, n) ==
    /\ ai' = [ai EXCEPT ![p] = n.ai]
    /\ ci' = [ci EXCEPT ![p] = n.ci]
    /\ awaiting' = [awaiting EXCEPT ![p] = CallIds(p, n.reqs)]
    /\ stamp' = [stamp EXCEPT ![p] =
                    IF Head(n.labels) \in {"uac_updateOne", "usc_updateOne"}
                    THEN now ELSE @]
    /\ unmatched' = [unmatched EXCEPT ![p] =
                        IF Head(n.labels) = "uac_updateOne" THEN MatchType("accounts") = {}
                        ELSE IF Head(n.labels) = "usc_updateOne" THEN MatchType("symbols") = {}
                        ELSE @]
    /\ pc' = [pc EXCEPT ![p] = n.labels \o Tail(@)]

\* updateAccountsCache's loops after account k of credential a: the balance
\* of the next account, else the accounts of the next credential, else the
\* write of the cache
UacNext(p, a, k) ==
    IF k < Len(AccountsAt(p, a))
    THEN [labels |-> <<"uac_balance">>, ai |-> a, ci |-> k + 1,
          reqs |-> <<Request("balance", authList[p][a].owner,
                             AccountsAt(p, a)[k + 1].number, authList[p][a].accessToken)>>]
    ELSE IF a < Len(authList[p])
    THEN [labels |-> <<"uac_accounts">>, ai |-> a + 1, ci |-> 0,
          reqs |-> <<AccountsRequest(authList[p][a + 1])>>]
    ELSE [labels |-> <<"uac_updateOne">>, ai |-> a + 1, ci |-> 0, reqs |-> <<>>]

\* getAuths resolved in updateAccountsCache: the loop over the credentials starts
UpdateAccountsCacheAuths(p) ==
    /\ At(p, "uac_afterAuths")
    /\ accountBalances' = [accountBalances EXCEPT ![p] = <<>>]
    /\ Proceed(p, UacNext(p, 0, 0))
    /\ Schedule(p, UacNext(p, 0, 0).reqs)
    /\ UNCHANGED <<outerVars, storeVars, upstreamVars, histVars, balanceVars, authVars,
                   symbolMap, market, usdToCad, result, dash>>

\* getAccounts is answered with the accounts of the credential
UpdateAccountsCacheAccounts(p) ==
    \E c \in running["limiter"] :
        /\ Settled
        /\ At(p, "uac_accounts") /\ c.kind = "accounts" /\ Awaited(p, "limiter", c)
        /\ Proceed(p, UacNext(p, ai[p], 0))
        /\ LeaveAndSchedule(p, "limiter", c, UacNext(p, ai[p], 0).reqs)
        /\ UNCHANGED <<outerVars, storeVars, upstreamVars, histVars, balanceVars,
                       authVars, accountBalances, symbolMap, market, usdToCad, result, dash>>

\* getRemoteAccountBalance is answered: the account joins accountBalances
UpdateAccountsCacheBalance(p) ==
    \E c \in running["limiter"] :
        /\ Settled
        /\ At(p, "uac_balance") /\ c.kind = "balance" /\ Awaited(p, "limiter", c)
        /\ accountBalances' = [accountBalances EXCEPT ![p] = Append(@,
               [accountNumber |-> c.acct,
                accountType |-> AccountsAt(p, ai[p])[ci[p]].type,
                owner |-> authList[p][ai[p]].owner,
                balance |-> equity[c.acct]])]
        /\ Proceed(p, UacNext(p, ai[p], ci[p]))
        /\ LeaveAndSchedule(p, "limiter", c, UacNext(p, ai[p], ci[p]).reqs)
        /\ UNCHANGED <<outerVars, storeVars, upstreamVars, histVars, balanceVars,
                       authVars, symbolMap, market, usdToCad, result, dash>>

\* updateOne({ type: 'accounts' }, ...) completes: updateAccountsCache returns
UpdateAccountsCacheWrite(p) ==
    /\ Settled
    /\ At(p, "uac_updateOne")
    /\ caches' \in UpsertOutcomes([type |-> "accounts", accounts |-> accountBalances[p],
                                   updatedAt |-> stamp[p]], unmatched[p])
    /\ pc' = [pc EXCEPT ![p] = Tail(@)]
    /\ UNCHANGED <<outerVars, dailyBalances, lastWrite, auths, upstreamVars, limiterVars,
                   awaiting, histVars, balanceVars, authVars, cacheVars, result, dash>>

\* symbolMap after the positions of one account, whatever their quantity
RECURSIVE AddPositionsAnyQuantity(_, _)
AddPositionsAnyQuantity(map, positions) ==
    IF positions = <<>> THEN map
    ELSE LET q == Head(positions)
             has == \E i \in 1..Len(map) : map[i].symbolId = q.symbolId
         IN AddPositionsAnyQuantity(
               IF ~has THEN Append(map, [symbol |-> q.symbol, symbolId |-> q.symbolId])
               ELSE map,
               Tail(positions))

\* symbolMap after the positions of one account: a position with open
\* quantity joins under its symbol id unless the id is already there
RECURSIVE AddPositions(_, _)
AddPositions(map, positions) ==
    IF positions = <<>> THEN map
    ELSE LET q == Head(positions)
             has == \E i \in 1..Len(map) : map[i].symbolId = q.symbolId
         IN AddPositions(IF q.openQuantity > 0 /\ ~has
                         THEN Append(map, [symbol |-> q.symbol, symbolId |-> q.symbolId])
                         ELSE map,
                         Tail(positions))

\* updateSymbolsCache's loops after account k of credential a, with symbolMap
\* = map: the positions of the next account, else the accounts of the next
\* credential; after the loops getAuths again if there are symbols, else the
\* write of the cache
UscNext(p, a, k, map) ==
    IF k < Len(AccountsAt(p, a))
    THEN [labels |-> <<"usc_positions">>, ai |-> a, ci |-> k + 1,
          reqs |-> <<Request("positions", authList[p][a].owner,
                             AccountsAt(p, a)[k + 1].number, authList[p][a].accessToken)>>]
    ELSE IF a < Len(authList[p])
    THEN [labels |-> <<"usc_accounts">>, ai |-> a + 1, ci |-> 0,
          reqs |-> <<AccountsRequest(authList[p][a + 1])>>]
    ELSE IF map # <<>>
    THEN [labels |-> <<"ga_find", "usc_afterFresh">>, ai |-> a + 1, ci |-> 0,
          reqs |-> <<>>]
    ELSE [labels |-> <<"usc_updateOne">>, ai |-> a + 1, ci |-> 0, reqs |-> <<>>]

\* getAuths resolved in updateSymbolsCache: the loop over the credentials starts
UpdateSymbolsCacheAuths(p) ==
    /\ At(p, "usc_afterAuths")
    /\ symbolMap' = [symbolMap EXCEPT ![p] = <<>>]
    /\ market' = [market EXCEPT ![p] = NoMarket]
    /\ Proceed(p, UscNext(p, 0, 0, <<>>))
    /\ Schedule(p, UscNext(p, 0, 0, <<>>).reqs)
    /\ UNCHANGED <<outerVars, storeVars, upstreamVars, histVars, balanceVars, authVars,
                   accountBalances, usdToCad, result, dash>>

\* getAccounts is answered with the accounts of the credential
UpdateSymbolsCacheAccounts(p) ==
    \E c \in running["limiter"] :
        /\ Settled
        /\ At(p, "usc_accounts") /\ c.kind = "accounts" /\ Awaited(p, "limiter", c)
        /\ Proceed(p, UscNext(p, ai[p], 0, symbolMap[p]))
        /\ LeaveAndSchedule(p, "limiter", c, UscNext(p, ai[p], 0, symbolMap[p]).reqs)
        /\ UNCHANGED <<outerVars, storeVars, upstreamVars, histVars, balanceVars,
                       authVars, accountBalances, symbolMap, market, usdToCad, result, dash>>

\* getRemotePositions is answered with the positions of the account
UpdateSymbolsCachePositions(p) ==
    \E c \in running["limiter"] :
        /\ Settled
        /\ At(p, "usc_positions") /\ c.kind = "positions" /\ Awaited(p, "limiter", c)
        /\ LET map == AddPositions(symbolMap[p], positionsOf[c.acct]) IN
           /\ symbolMap' = [symbolMap EXCEPT ![p] = map]
           /\ Proceed(p, UscNext(p, ai[p], ci[p], map))
           /\ LeaveAndSchedule(p, "limiter", c, UscNext(p, ai[p], ci[p], map).reqs)
        /\ UNCHANGED <<outerVars, storeVars, upstreamVars, histVars, balanceVars,
                       authVars, accountBalances, market, usdToCad, result, dash>>

\* getRemoteQuotes and getRemoteSymbolDetails with the first fresh credential
MarketRequests(a) ==
    <<Request("quotes", a.owner, "none", a.accessToken),
      Request("symbols", a.owner, "none", a.accessToken)>>

\* The second getAuths resolved: with no credential updateSymbolsCache
\* returns without writing; otherwise the quotes call and the symbol-details
\* call are scheduled together and awaited with Promise.all.
UpdateSymbolsCacheFresh(p) ==
    /\ At(p, "usc_afterFresh")
    /\ IF authList[p] = <<>>
       THEN /\ pc' = [pc EXCEPT ![p] = Tail(@)]
            /\ UNCHANGED <<limiterVars, awaiting>>
       ELSE /\ pc' = [pc EXCEPT ![p] = <<"usc_market">> \o Tail(@)]
            /\ awaiting' = [awaiting EXCEPT ![p] = CallIds(p, MarketRequests(authList[p][1]))]
            /\ Schedule(p, MarketRequests(authList[p][1]))
    /\ UNCHANGED <<outerVars, storeVars, upstreamVars, histVars, balanceVars, authVars,
                   cacheVars, result, dash>>

\* the quotes / the symbol details the brokerage returns for the ids of map
QuotesFor(map) == [i \in 1..Len(map) |-> quoteOf[map[i].symbolId]]
DetailsFor(map) == [i \in 1..Len(map) |-> detailOf[map[i].symbolId]]

\* The quotes call or the symbol-details call is answered; with both answers
\* in, the cache document is built and updateOne is sent.
UpdateSymbolsCacheMarket(p) ==
    \E c \in running["marketLimiter"] :
        /\ Settled
        /\ At(p, "usc_market") /\ Awaited(p, "marketLimiter", c)
        /\ Leave("marketLimiter", c)
        /\ market' = [market EXCEPT ![p] =
              IF c.kind = "quotes"
              THEN [@ EXCEPT !.quotes = QuotesFor(symbolMap[p]), !.got = @ \cup {"quotes"}]
              ELSE [@ EXCEPT !.details = DetailsFor(symbolMap[p]), !.got = @ \cup {"symbols"}]]
        /\ awaiting' = [awaiting EXCEPT ![p] = @ \ {<<"marketLimiter", c.seq>>}]
        /\ IF awaiting[p] = {<<"marketLimiter", c.seq>>}
           THEN /\ pc' = [pc EXCEPT ![p] = <<"usc_updateOne">> \o Tail(@)]
                /\ stamp' = [stamp EXCEPT ![p] = now]
                /\ unmatched' = [unmatched EXCEPT ![p] = MatchType("symbols") = {}]
           ELSE UNCHANGED <<pc, stamp, unmatched>>
        /\ UNCHANGED <<outerVars, storeVars, upstreamVars, histVars, balanceVars,
                       authVars, ai, ci, accountBalances, symbolMap, usdToCad, result, dash>>

\* n / d rounded to the nearest integer, halves upward, as Math.round (d > 0)
RoundDiv(n, d) == (2 * n + d) \div (2 * d)

\* prevCloseMap.get(id): the previous close of the last detail of that id
\* (<<>>: no detail, or a null price)
PrevClose(details, id) ==
    LET S == {i \in 1..Len(details) : details[i].symbolId = id} IN
    IF S = {} THEN <<>> ELSE details[Max(S)].prevDayClosePrice

\* descriptionMap.get(id) || ''
Description(details, id) ==
    LET S == {i \in 1..Len(details) : details[i].symbolId = id} IN
    IF S = {} THEN "" ELSE details[Max(S)].description

\* Math.round(dayChangePercent * 100) / 100, in hundredths of a percent:
\* the change from the base price, 0 when the base price is not positive
DayChangePercent(last, base) ==
    IF base > 0 THEN RoundDiv((last - base) * 10000, base) ELSE 0

\* the entry of one quote with the open price as the base whenever the
\* previous close is not a positive number
PerformanceOpenUnlessPositive(quote, details) ==
    LET prevClose == PrevClose(details, quote.symbolId)
        basePrice == IF prevClose = <<>> \/ prevClose[1] <= 0
                     THEN quote.openPrice ELSE prevClose[1]
    IN [symbol |-> quote.symbol, symbolId |-> quote.symbolId,
        description |-> Description(details, quote.symbolId),
        dayChangePercent |-> DayChangePercent(quote.lastTradePrice, basePrice)]

\* the SymbolPerformance entry of one quote
Performance(quote, details) ==
    LET prevClose == PrevClose(details, quote.symbolId)
        basePrice == IF prevClose = <<>> THEN quote.openPrice ELSE prevClose[1]
    IN [symbol |-> quote.symbol, symbolId |-> quote.symbolId,
        description |-> Description(details, quote.symbolId),
        dayChangePercent |-> DayChangePercent(quote.lastTradePrice, basePrice)]

\* updateOne({ type: 'symbols' }, ...) completes: updateSymbolsCache returns
UpdateSymbolsCacheWrite(p) ==
    /\ Settled
    /\ At(p, "usc_updateOne")
    /\ caches' \in UpsertOutcomes(
          [type |-> "symbols",
           symbols |-> [i \in 1..Len(market[p].quotes) |->
                           Performance(market[p].quotes[i], market[p].details)],
           updatedAt |-> stamp[p]], unmatched[p])
    /\ pc' = [pc EXCEPT ![p] = Tail(@)]
    /\ UNCHANGED <<outerVars, dailyBalances, lastWrite, auths, upstreamVars, limiterVars,
                   awaiting, histVars, balanceVars, authVars, cacheVars, result, dash>>

\* the exchange-rate service answers with a rate: the cache document is built
\* and updateOne is sent
ExchangeRateOk(p) ==
    \E r \in ratesOffered :
        /\ Settled
        /\ At(p, "uerc_fetch") /\ [proc |-> p, kind |-> "exchangeRate"] \in direct
        /\ direct' = direct \ {[proc |-> p, kind |-> "exchangeRate"]}
        /\ usdToCad' = [usdToCad EXCEPT ![p] = r]
        /\ stamp' = [stamp EXCEPT ![p] = now]
        /\ unmatched' = [unmatched EXCEPT ![p] = MatchType("exchange-rate") = {}]
        /\ pc' = [pc EXCEPT ![p] = <<"uerc_updateOne">> \o Tail(@)]
        /\ UNCHANGED <<outerVars, storeVars, issued, limiterVars, awaiting, histVars,
                       balanceVars, authVars, ai, ci, accountBalances, symbolMap, market,
                       result, dash>>

\* the exchange-rate service answers with a non-success status and the catch
\* block stores a document without a rate
ExchangeRateFailedStoresNone(p) ==
    /\ Settled
    /\ "exchangeRate" \in failingKinds
    /\ At(p, "uerc_fetch") /\ [proc |-> p, kind |-> "exchangeRate"] \in direct
    /\ direct' = direct \ {[proc |-> p, kind |-> "exchangeRate"]}
    /\ Fails(p)
    /\ caches' = UpsertCache([type |-> "exchange-rate", usdToCad |-> 0, updatedAt |-> now])
    /\ pc' = [pc EXCEPT ![p] = Unwind(@)]
    /\ UNCHANGED <<outerVars, dailyBalances, lastWrite, auths, issued, limiterVars,
                   awaiting, balanceVars, authVars, cacheVars, result, dash>>

\* the exchange-rate service answers with a non-success status:
\* getRemoteExchangeRate throws and updateExchangeRateCache's catch logs it
ExchangeRateFailed(p) ==
    /\ Settled
    /\ "exchangeRate" \in failingKinds
    /\ At(p, "uerc_fetch") /\ [proc |-> p, kind |-> "exchangeRate"] \in direct
    /\ direct' = direct \ {[proc |-> p, kind |-> "exchangeRate"]}
    /\ Fails(p)
    /\ pc' = [pc EXCEPT ![p] = Unwind(@)]
    /\ UNCHANGED <<outerVars, storeVars, issued, limiterVars, awaiting, balanceVars,
                   authVars, cacheVars, result, dash>>

\* the exchange-rate document is inserted, whether or not there is one
UpdateExchangeRateCacheInserts(p) ==
    /\ Settled
    /\ At(p, "uerc_updateOne")
    /\ caches' = Append(caches, [type |-> "exchange-rate", usdToCad |-> usdToCad[p],
                                 updatedAt |-> stamp[p]])
    /\ pc' = [pc EXCEPT ![p] = Tail(@)]
    /\ UNCHANGED <<outerVars, dailyBalances, lastWrite, auths, upstreamVars, limiterVars,
                   awaiting, histVars, balanceVars, authVars, cacheVars, result, dash>>

\* updateOne({ type: 'exchange-rate' }, ...) completes: updateExchangeRateCache returns
UpdateExchangeRateCacheWrite(p) ==
    /\ Settled
    /\ At(p, "uerc_updateOne")
    /\ caches' \in UpsertOutcomes([type |-> "exchange-rate", usdToCad |-> usdToCad[p],
                                   updatedAt |-> stamp[p]], unmatched[p])
    /\ pc' = [pc EXCEPT ![p] = Tail(@)]
    /\ UNCHANGED <<outerVars, dailyBalances, lastWrite, auths, upstreamVars, limiterVars,
                   awaiting, histVars, balanceVars, authVars, cacheVars, result, dash>>

\* ------------------------------------------------------------------ time ----
\* a limiter with a queued call and room for it launches it without waiting
Prompt == \A l \in Limiters : queue[l] = <<>> \/ Cardinality(running[l]) >= maxConcurrent(l)

\* time passes by d, while store operations and upstream calls are in
\* flight, until the clock has reached maxNow
Tick(d, maxNow) ==
    /\ Settled /\ Prompt
    /\ now < maxNow
    /\ now' = now + d
    /\ UNCHANGED <<envVars, lastFire, storeVars, upstreamVars, limiterVars, awaiting, pc,
                   histVars, balanceVars, authVars, cacheVars, result, dash>>

\* ----------------------------------------------------------- construction ----
\* the process has started: nothing is scheduled, no operation is running
InitCommon ==
    /\ issued = Len(Owners)
    /\ direct = {}
    /\ queue = [l \in Limiters |-> <<>>]
    /\ running = [l \in Limiters |-> {}]
    /\ lastStart = [l \in Limiters |-> -1]
    /\ lastGap = [l \in Limiters |-> -1]
    /\ nextSeq = [l \in Limiters |-> 0]
    /\ lastSeq = [l \in Limiters |-> 0]
    /\ launched = [l \in Limiters |-> {}]
    /\ hung = {}
    /\ lastFire = -1
    /\ awaiting = [p \in Procs |-> {}]
    /\ pc = [p \in Procs |-> <<"idle">>]
    /\ rejected = [p \in Procs |-> 0]
    /\ log = [p \in Procs |-> <<>>]
    /\ balance = [p \in Procs |-> 0]
    /\ todayDate = [p \in Procs |-> 0]
    /\ current = [p \in Procs |-> FALSE]
    /\ returned = [p \in Procs |-> <<>>]
    /\ authList = [p \in Procs |-> <<>>]
    /\ idx = [p \in Procs |-> 0]
    /\ grant = [p \in Procs |-> NoGrant]
    /\ tokenCalls = [p \in Procs |-> <<>>]
    /\ checked = [p \in Procs |-> <<>>]
    /\ ai = [p \in Procs |-> 0]
    /\ ci = [p \in Procs |-> 0]
    /\ accountBalances = [p \in Procs |-> <<>>]
    /\ symbolMap = [p \in Procs |-> <<>>]
    /\ market = [p \in Procs |-> NoMarket]
    /\ usdToCad = [p \in Procs |-> 0]
    /\ stamp = [p \in Procs |-> 0]
    /\ unmatched = [p \in Procs |-> FALSE]
    /\ result = [p \in Procs |-> NoResult]
    /\ dash = [p \in Procs |-> NoDash]

\* the stored credential of the i-th owner, with the i-th token pair
Credential(i, expiry) ==
    [owner |-> Owners[i], accessToken |-> i, refreshToken |-> i, uri |-> "api01",
     expiry |-> expiry]

\* ------------------------------------- the daily snapshot and its writers ----
\* 07:00 in the cron's zone on the second day of the model's epoch
SnapT0 == MsPerDay + 14 * MsPerHour
SnapTick == 20 * MsPerMinute
MaxSnapTicks == 1
SnapMaxNow == SnapT0 + MaxSnapTicks * SnapTick
SnapEquity == 500

\* One owner with a credential that stays valid, one account without
\* positions; the collection holds no snapshot and no cache yet.  The process
\* runs in UTC or in the cron's zone.
InitSnapshot ==
    /\ InitCommon
    /\ probe = NoProbe
    /\ now = SnapT0
    /\ tzOffset \in {0, CronZoneOffset}
    /\ accountsOf = [o \in {"o1"} |-> <<[number |-> "a1", type |-> "TFSA"]>>]
    /\ equity = [a \in {"a1"} |-> SnapEquity]
    /\ positionsOf = [a \in {"a1"} |-> <<>>]
    /\ quoteOf = <<>> /\ detailOf = <<>>
    /\ ratesOffered = {135} /\ lifetimesOffered = {} /\ failingKinds = {}
    /\ dailyBalances = <<>> /\ lastWrite = <<>> /\ caches = <<>>
    /\ auths = <<Credential(1, SnapMaxNow + MsPerDay)>>

NextSnapshot ==
    \/ \E p \in Procs : CronFire(p)
    \/ \E p \in Procs : StartGetBalance(p)
    \/ \E p \in Procs : GetAuthsFind(p)
    \/ \E p \in Procs : FetchBalanceAuths(p)
    \/ \E p \in Procs : AccountNumbersOk(p)
    \/ \E p \in Procs : AggregateBalanceOk(p)
    \/ \E p \in Procs : FetchBalanceTotal(p)
    \/ \E p \in Procs : UpdateDailyBalanceFind(p)
    \/ \E p \in Procs : UpdateDailyBalanceWrite(p)
    \/ \E p \in Procs : FetchBalanceUpdated(p)
    \/ \E p \in Procs : UpdateAccountsCacheAuths(p)
    \/ \E p \in Procs : UpdateAccountsCacheAccounts(p)
    \/ \E p \in Procs : UpdateAccountsCacheBalance(p)
    \/ \E p \in Procs : UpdateAccountsCacheWrite(p)
    \/ \E p \in Procs : FetchBalanceAccounts(p)
    \/ \E p \in Procs : UpdateSymbolsCacheAuths(p)
    \/ \E p \in Procs : UpdateSymbolsCacheAccounts(p)
    \/ \E p \in Procs : UpdateSymbolsCachePositions(p)
    \/ \E p \in Procs : UpdateSymbolsCacheWrite(p)
    \/ \E p \in Procs : FetchBalanceSymbols(p)
    \/ \E p \in Procs : ExchangeRateOk(p)
    \/ \E p \in Procs : UpdateExchangeRateCacheWrite(p)
    \/ \E p \in Procs : FetchBalanceExchange(p)
    \/ \E p \in Procs : GetTodayBalance(p)
    \/ \E p \in Procs : HandleGetBalanceToday(p)
    \/ \E p \in Procs : HandleGetBalanceUpdated(p)
    \/ \E p \in Procs : GetLatestBalance(p)
    \/ \E p \in Procs : HandleGetBalanceLatest(p)
    \/ Dispatch("limiter")
    \/ Tick(SnapTick, SnapMaxNow)

SpecSnapshot == InitSnapshot /\ [][NextSnapshot]_vars

\* ---- properties of the daily snapshot (SpecSnapshot) ----

\* C1 as stated: in every reachable state at most one daily balance snapshot
\* exists per date, however the updateDailyBalance calls of fetchBalance runs
\* and of GET /investments/balance requests interleave.
C1_OneSnapshotPerDate ==
    \A i, j \in 1..Len(dailyBalances) :
        dailyBalances[i].date = dailyBalances[j].date => i = j

\* p's step that completes getTodayBalance's findOne
TodayBalanceStep(p) == At(p, "gtb_findOne") /\ pc'[p] # pc[p]

\* C2 as stated: getTodayBalance returns the balance of today's snapshot when
\* that snapshot was last written within 15 minutes of now, and null when it
\* was last written more than 15 minutes ago or when there is none.
C2_TodayBalanceOnlyWithin15Minutes ==
    [][\A p \in Procs :
          TodayBalanceStep(p) =>
             LET S == {i \in 1..Len(dailyBalances) :
                          dailyBalances[i].date = StartOfDayLocal(now, tzOffset)}
             IN returned'[p] =
                   IF S # {} /\ now - lastWrite[Min(S)] <= 15 * 60000
                   THEN <<dailyBalances[Min(S)].balance>> ELSE <<>>
      ]_vars

\* ------------------------------------------------- getAuths on its own ----
T0 == 100000
AuthTick == 5000
MaxAuthTicks == 2
AuthMaxNow == T0 + MaxAuthTicks * AuthTick
\* the first credential starts expired or at its expiry, the second at its
\* expiry or still valid
InitExpiries(i) == IF i = 1 THEN {T0 - AuthTick, T0} ELSE {T0, T0 + AuthTick}

InitAuths ==
    /\ InitCommon
    /\ probe = NoProbe
    /\ now = T0 /\ tzOffset = 0
    /\ accountsOf = <<>> /\ equity = <<>> /\ positionsOf = <<>>
    /\ quoteOf = <<>> /\ detailOf = <<>> /\ ratesOffered = {}
    /\ lifetimesOffered = {10, 30, 40} /\ failingKinds = {"token"}
    /\ dailyBalances = <<>> /\ lastWrite = <<>> /\ caches = <<>>
    /\ \E e1 \in InitExpiries(1), e2 \in InitExpiries(2) :
          auths = <<Credential(1, e1), Credential(2, e2)>>

NextAuths ==
    \/ \E p \in Procs : CallGetAuths(p)
    \/ \E p \in Procs : GetAuthsFind(p)
    \/ \E p \in Procs : GrantOk(p)
    \/ \E p \in Procs : GrantFailed(p)
    \/ \E p \in Procs : GetAuthsUpdateOne(p)
    \/ \E p \in Procs : GetAuthsReturned(p)
    \/ Dispatch("limiter")
    \/ Tick(AuthTick, AuthMaxNow)

SpecAuths == InitAuths /\ [][NextAuths]_vars

\* ---- properties of getAuths (SpecAuths) ----

\* p's getAuths step that completes updateOne
PersistStep(p) == At(p, "ga_updateOne") /\ pc'[p] # pc[p]

\* p's getAuths step that receives a grant and rewrites the in-memory record
GrantStep(p) == At(p, "ga_grant") /\ pc'[p] # pc[p] /\ grant'[p] # grant[p]

\* the stored credential of owner o after the step
StoredAfter(o) == auths'[Min({j \in 1..Len(auths') : auths'[j].owner = o})]

\* what the claim says a credential of owner o refreshed with grant g holds
RefreshedFrom(o, g) ==
    [owner |-> o, accessToken |-> g.access_token, refreshToken |-> g.refresh_token,
     uri |-> g.api_server, expiry |-> g.at + (g.expires_in - 30) * 1000]

\* C3 as stated: a credential whose expiry is <= now when the loop tests it
\* (the boundary expiry = now included) gets exactly one token exchange from
\* that invocation, and the refresh raises its expiry.
C3_RefreshedWhenExpiryAtOrBeforeNow ==
    [][\A p \in Procs :
          /\ \A i \in DOMAIN checked'[p] :
                checked'[p][i] \in {"before", "equal"} => tokenCalls'[p][i] = 1
          /\ GrantStep(p) => authList'[p][idx[p]].expiry > authList[p][idx[p]].expiry
          /\ PersistStep(p) =>
                StoredAfter(authList[p][idx[p]].owner).expiry = authList[p][idx[p]].expiry
      ]_vars

\* C3 amended: a credential whose expiry is strictly before now when the loop
\* tests it gets exactly one token exchange from that invocation, one whose
\* expiry equals now gets none; when the exchange succeeds with a grant
\* lifetime of at least 30 s the in-memory expiry becomes strictly greater
\* than the one read, and updateOne stores exactly that expiry.
C3_RefreshedWhenExpiryBeforeNow ==
    [][\A p \in Procs :
          /\ \A i \in DOMAIN checked'[p] :
                /\ checked'[p][i] = "before" => tokenCalls'[p][i] = 1
                /\ checked'[p][i] = "equal" => tokenCalls'[p][i] = 0
          /\ GrantStep(p) /\ grant'[p].expires_in >= 30 =>
                authList'[p][idx[p]].expiry > authList[p][idx[p]].expiry
          /\ PersistStep(p) =>
                StoredAfter(authList[p][idx[p]].owner).expiry = authList[p][idx[p]].expiry
      ]_vars

\* C3 witness: an invocation found a credential expired, exchanged its token
\* once, stored the refreshed record and went on.
C3_Witness ==
    \E p \in Procs : \E i \in DOMAIN checked[p] :
        /\ checked[p][i] = "before" /\ tokenCalls[p][i] = 1 /\ idx[p] > i
        /\ \E j \in 1..Len(auths) : auths[j] = authList[p][i] /\ auths[j].expiry > now

\* C4: a credential whose expiry is strictly after now when the loop tests it
\* gets no token exchange from that invocation, and no step of that invocation
\* changes its stored record; no step adds or removes a credential document.
C4_ValidCredentialUntouched ==
    [][/\ Len(auths') = Len(auths)
       /\ \A p \in Procs : \A i \in DOMAIN checked'[p] :
             checked'[p][i] = "after" =>
                /\ tokenCalls'[p][i] = 0
                /\ \A l \in Limiters : \A k \in 1..Len(queue'[l]) :
                      ~(queue'[l][k].proc = p /\ queue'[l][k].kind = "token"
                        /\ queue'[l][k].owner = authList'[p][i].owner)
                /\ pc'[p] # pc[p] =>
                      \A j \in 1..Len(auths) :
                          auths[j].owner = authList'[p][i].owner => auths'[j] = auths[j]
      ]_vars

\* C4 witness: an invocation returned after refreshing one credential and
\* passing over another that was still valid.
C4_Witness ==
    \E p \in Procs : \E i, k \in DOMAIN checked[p] :
        /\ pc[p] = <<"returned">>
        /\ checked[p][i] = "after" /\ tokenCalls[p][i] = 0
        /\ checked[p][k] = "before" /\ tokenCalls[p][k] = 1

\* C5 as stated: right after a refresh the in-memory record and the stored
\* record carry the grant's tokens and server and expiry = time of refresh +
\* lifetime - 30 s, and that expiry is in the future whatever the lifetime.
C5_RefreshedExpiryAlwaysInFuture ==
    [][\A p \in Procs :
          PersistStep(p) =>
             LET a == authList[p][idx[p]] IN
             /\ a = RefreshedFrom(a.owner, grant[p])
             /\ StoredAfter(a.owner) = a
             /\ a.expiry > grant[p].at
      ]_vars

\* C5 amended: right after a refresh the in-memory record and the stored
\* record carry the grant's tokens and server and expiry = time of refresh +
\* lifetime - 30 s; that expiry is after the time of refresh exactly when the
\* lifetime exceeds 30 s.
C5_RefreshedRecordCarriesGrant ==
    [][\A p \in Procs :
          PersistStep(p) =>
             LET a == authList[p][idx[p]] IN
             /\ a = RefreshedFrom(a.owner, grant[p])
             /\ StoredAfter(a.owner) = a
             /\ (a.expiry > grant[p].at) <=> (grant[p].expires_in > 30)
      ]_vars

\* C5 witness: a refreshed credential is stored as held in memory, with an
\* expiry in the future, and its invocation has returned it.
C5_Witness ==
    \E p \in Procs : \E i \in DOMAIN authList[p] :
        /\ pc[p] = <<"returned">> /\ tokenCalls[p][i] = 1
        /\ result[p].status = "returned"
        /\ result[p].body[i] = RefreshedFrom(Owners[i], grant[p])
        /\ \E j \in 1..Len(auths) : auths[j] = result[p].body[i]
        /\ result[p].body[i].expiry > now

\* C6: an invocation that received a non-success answer to a token exchange
\* threw and returned no list.
C6_FailedExchangeAbortsGetAuths ==
    \A p \in Procs : rejected[p] > 0 => pc[p] = <<"threw">> /\ result[p] = NoResult

\* C6 witness: the exchange for the second credential failed after the first
\* credential had been refreshed and stored; the invocation threw.
C6_Witness ==
    \E p \in Procs :
        /\ rejected[p] = 1 /\ pc[p] = <<"threw">> /\ result[p] = NoResult
        /\ Len(tokenCalls[p]) = 2 /\ tokenCalls[p][1] = 1 /\ tokenCalls[p][2] = 1
        /\ \E j \in 1..Len(auths) : auths[j] = authList[p][1]


\* the owners that have a credential document in the collection c
OwnersStored(c) == {c[i].owner : i \in 1..Len(c)}

\* C33: no step deletes a credential or gives an owner a second one: the set
\* of owners with a credential document never changes, and in every state
\* each owner has at most one credential document.
C33_OwnersKeptOneCredentialEach ==
    /\ [](\A o \in OwnersStored(auths) : Cardinality(MatchOwner(o)) = 1)
    /\ [][OwnersStored(auths') = OwnersStored(auths)]_vars

\* C33 witness: both owners' credentials have been refreshed and stored by
\* an invocation that has returned, and each owner still has its one document
C33_Witness ==
    /\ Len(auths) = 2
    /\ auths[1].owner = Owners[1] /\ auths[2].owner = Owners[2]
    /\ auths[1].refreshToken > Len(Owners) + 1
    /\ auths[2].refreshToken > Len(Owners)
    /\ \E p \in Procs : pc[p] = <<"returned">>

\* the token exchanges that are queued or in flight
PendingExchanges ==
    {c \in {queue["limiter"][i] : i \in 1..Len(queue["limiter"])} \cup running["limiter"] :
        c.kind = "token"}

\* C35 as stated, for the exchanges that are pending together: no two
\* token-exchange calls carry the same refresh token value.
C35_RefreshTokenExchangedOnce ==
    \A c, d \in PendingExchanges : c.token = d.token => c.seq = d.seq

\* p's getAuths is rejected by the failure of a token exchange
AbortStep(p) == At(p, "ga_grant") /\ rejected'[p] > rejected[p]

\* the credentials p's invocation refreshed before the one it stands at
RefreshedEarlier(p) == {i \in 1..(idx[p] - 1) : tokenCalls[p][i] = 1}

\* the refresh tokens granted for owner o so far, numbered in the order of
\* their grants
GrantedFor(o) ==
    {t \in (Len(Owners) + 1)..issued :
        \E q \in Procs : \E i \in 1..Len(authList[q]) :
            authList[q][i].owner = o /\ authList[q][i].refreshToken = t}

LimTick == 70
MaxLimTicks == 2
LimMaxNow == SnapT0 + MaxLimTicks * LimTick
LimLifetime == 1800

\* One owner whose credential has just expired, two accounts, one of them
\* with a position; the scheduled run and a force-balance request contend.
InitLimiter ==
    /\ InitCommon
    /\ probe = NoProbe
    /\ now = SnapT0
    /\ tzOffset = CronZoneOffset
    /\ accountsOf = [o \in {"o1"} |-> <<[number |-> "a1", type |-> "TFSA"],
                                        [number |-> "a2", type |-> "RRSP"]>>]
    /\ equity = [a \in {"a1", "a2"} |-> IF a = "a1" THEN 300 ELSE 200]
    /\ positionsOf = [a \in {"a1", "a2"} |->
                         IF a = "a1"
                         THEN <<[symbolId |-> 1, symbol |-> "XEQT", openQuantity |-> 2]>>
                         ELSE <<>>]
    /\ quoteOf = <<[symbolId |-> 1, symbol |-> "XEQT", lastTradePrice |-> 3050,
                    openPrice |-> 3000]>>
    /\ detailOf = <<[symbolId |-> 1, description |-> "equity etf",
                     prevDayClosePrice |-> <<2990>>]>>
    /\ ratesOffered = {135} /\ lifetimesOffered = {LimLifetime}
    /\ failingKinds = {"balance"}
    /\ dailyBalances = <<>> /\ lastWrite = <<>> /\ caches = <<>>
    /\ auths = <<Credential(1, SnapT0 - 1)>>

NextLimiter ==
    \/ \E p \in Procs : CronFire(p)
    \/ \E p \in Procs : StartForceBalance(p)
    \/ \E p \in Procs : GetAuthsFind(p)
    \/ \E p \in Procs : GrantOk(p)
    \/ \E p \in Procs : GetAuthsUpdateOne(p)
    \/ \E p \in Procs : FetchBalanceAuths(p)
    \/ \E p \in Procs : HandleForceBalanceAuths(p)
    \/ \E p \in Procs : AccountNumbersOk(p)
    \/ \E p \in Procs : AggregateBalanceOk(p)
    \/ \E p \in Procs : CallFailed(p)
    \/ \E l \in Limiters : CompleteDropped(l)
    \/ \E p \in Procs : HandleForceBalanceTotal(p)
    \/ \E p \in Procs : HandleForceBalanceCatch(p)
    \/ \E p \in Procs : FetchBalanceTotal(p)
    \/ \E p \in Procs : UpdateDailyBalanceFind(p)
    \/ \E p \in Procs : UpdateDailyBalanceWrite(p)
    \/ \E p \in Procs : FetchBalanceUpdated(p)
    \/ \E p \in Procs : UpdateAccountsCacheAuths(p)
    \/ \E p \in Procs : UpdateAccountsCacheAccounts(p)
    \/ \E p \in Procs : UpdateAccountsCacheBalance(p)
    \/ \E p \in Procs : UpdateAccountsCacheWrite(p)
    \/ \E p \in Procs : FetchBalanceAccounts(p)
    \/ \E p \in Procs : UpdateSymbolsCacheAuths(p)
    \/ \E p \in Procs : UpdateSymbolsCacheAccounts(p)
    \/ \E p \in Procs : UpdateSymbolsCachePositions(p)
    \/ \E p \in Procs : UpdateSymbolsCacheFresh(p)
    \/ \E p \in Procs : UpdateSymbolsCacheMarket(p)
    \/ \E p \in Procs : UpdateSymbolsCacheWrite(p)
    \/ \E p \in Procs : FetchBalanceSymbols(p)
    \/ \E p \in Procs : ExchangeRateOk(p)
    \/ \E p \in Procs : UpdateExchangeRateCacheWrite(p)
    \/ \E p \in Procs : FetchBalanceExchange(p)
    \/ \E p \in Procs : FetchBalanceCatch(p)
    \/ \E l \in Limiters : Dispatch(l)
    \/ Tick(LimTick, LimMaxNow)

SpecLimiter == InitLimiter /\ [][NextLimiter]_vars

\* ---- properties of the limiters (SpecLimiter) ----

\* C7: in every reachable state each limiter has at most one call in flight,
\* however many operations are outstanding and share the limiters.
C7_AtMostOneCallInFlight ==
    \A l \in Limiters : Cardinality(running[l]) <= 1

\* C7 witness: both limiters are at their limit at once, each with a call in
\* flight and another waiting, for two different operations.
C7_Witness ==
    \E c \in running["limiter"], d \in running["marketLimiter"] :
        /\ c.proc # d.proc
        /\ queue["limiter"] # <<>> /\ queue["marketLimiter"] # <<>>

\* C8: within each limiter calls are dispatched in the order of their
\* submission: no call waits in the queue while a call submitted after it has
\* been dispatched, whichever operations submitted them.
C8_DispatchedInSubmissionOrder ==
    \A l \in Limiters :
        /\ \A k \in 1..Len(queue[l]) : queue[l][k].seq > lastSeq[l]
        /\ \A c \in running[l] : c.seq <= lastSeq[l]

\* C8 witness: the account limiter has dispatched a call of one operation
\* while calls of both operations wait behind it.
C8_Witness ==
    /\ lastSeq["limiter"] >= 3
    /\ \E j, k \in 1..Len(queue["limiter"]) :
          /\ j < k
          /\ queue["limiter"][j].proc # queue["limiter"][k].proc
    /\ \E c \in running["limiter"] : c.seq = lastSeq["limiter"]

\* C9: every brokerage call is queued on and dispatched by the matching
\* limiter: token-exchange, account-listing, account-balance and positions
\* calls by the account limiter, quote and symbol-detail calls by the market
\* limiter; no brokerage call is in flight outside the limiters.
C9_CallsAdmittedByMatchingQueue ==
    /\ \A l \in Limiters :
          \A c \in running[l] \cup {queue[l][k] : k \in 1..Len(queue[l])} :
              IF c.kind \in {"token", "accountNumbers", "accounts", "balance", "positions"}
              THEN l = "limiter"
              ELSE c.kind \in {"quotes", "symbols"} /\ l = "marketLimiter"
    /\ launched["limiter"] \subseteq
          {"token", "accountNumbers", "accounts", "balance", "positions"}
    /\ launched["marketLimiter"] \subseteq {"quotes", "symbols"}
    /\ \A d \in direct : d.kind = "exchangeRate"

\* C9 witness: every kind of brokerage call has been dispatched, each by its
\* limiter.
C9_Witness ==
    /\ launched["limiter"] =
          {"token", "accountNumbers", "accounts", "balance", "positions"}
    /\ launched["marketLimiter"] = {"quotes", "symbols"}

\* C10: two successive dispatches of the account limiter are at least 120 ms
\* apart and two successive dispatches of the market limiter at least 50 ms.
C10_MinimumGapBetweenDispatches ==
    /\ lastGap["limiter"] = -1 \/ lastGap["limiter"] >= 120
    /\ lastGap["marketLimiter"] = -1 \/ lastGap["marketLimiter"] >= 50

\* C10 witness: each limiter has held a call back until exactly its minimum
\* after the previous dispatch; the account limiter dispatched last.
C10_Witness ==
    /\ lastGap["limiter"] = 120 /\ lastGap["marketLimiter"] = 50
    /\ lastStart["limiter"] > lastStart["marketLimiter"]

\* ------------------------------------------------ a call that never settles ----
\* One owner with a valid credential and one account holding one position;
\* the scheduled run and a force-balance request contend, and any call in
\* flight may hang.
InitHang ==
    /\ InitCommon
    /\ probe = NoProbe
    /\ now = SnapT0
    /\ tzOffset = CronZoneOffset
    /\ accountsOf = [o \in {"o1"} |-> <<[number |-> "a1", type |-> "TFSA"]>>]
    /\ equity = [a \in {"a1"} |-> SnapEquity]
    /\ positionsOf = [a \in {"a1"} |->
                         <<[symbolId |-> 1, symbol |-> "XEQT", openQuantity |-> 2]>>]
    /\ quoteOf = <<[symbolId |-> 1, symbol |-> "XEQT", lastTradePrice |-> 3050,
                    openPrice |-> 3000]>>
    /\ detailOf = <<[symbolId |-> 1, description |-> "equity etf",
                     prevDayClosePrice |-> <<2990>>]>>
    /\ ratesOffered = {135} /\ lifetimesOffered = {} /\ failingKinds = {}
    /\ dailyBalances = <<>> /\ lastWrite = <<>> /\ caches = <<>>
    /\ auths = <<Credential(1, SnapT0 + MsPerDay)>>

NextHang ==
    \/ \E p \in Procs : CronFire(p)
    \/ \E p \in Procs : StartForceBalance(p)
    \/ \E p \in Procs : GetAuthsFind(p)
    \/ \E p \in Procs : FetchBalanceAuths(p)
    \/ \E p \in Procs : HandleForceBalanceAuths(p)
    \/ \E p \in Procs : AccountNumbersOk(p)
    \/ \E p \in Procs : AggregateBalanceOk(p)
    \/ \E p \in Procs : HandleForceBalanceTotal(p)
    \/ \E p \in Procs : FetchBalanceTotal(p)
    \/ \E p \in Procs : UpdateDailyBalanceFind(p)
    \/ \E p \in Procs : UpdateDailyBalanceWrite(p)
    \/ \E p \in Procs : FetchBalanceUpdated(p)
    \/ \E p \in Procs : UpdateAccountsCacheAuths(p)
    \/ \E p \in Procs : UpdateAccountsCacheAccounts(p)
    \/ \E p \in Procs : UpdateAccountsCacheBalance(p)
    \/ \E p \in Procs : UpdateAccountsCacheWrite(p)
    \/ \E p \in Procs : FetchBalanceAccounts(p)
    \/ \E p \in Procs : UpdateSymbolsCacheAuths(p)
    \/ \E p \in Procs : UpdateSymbolsCacheAccounts(p)
    \/ \E p \in Procs : UpdateSymbolsCachePositions(p)
    \/ \E p \in Procs : UpdateSymbolsCacheFresh(p)
    \/ \E p \in Procs : UpdateSymbolsCacheMarket(p)
    \/ \E p \in Procs : UpdateSymbolsCacheWrite(p)
    \/ \E p \in Procs : FetchBalanceSymbols(p)
    \/ \E p \in Procs : ExchangeRateOk(p)
    \/ \E p \in Procs : UpdateExchangeRateCacheWrite(p)
    \/ \E p \in Procs : FetchBalanceExchange(p)
    \/ \E l \in Limiters : Dispatch(l)
    \/ \E l \in Limiters : Hang(l)

SpecHang == InitHang /\ [][NextHang]_vars

\* ---- properties of a hung call (SpecHang) ----

\* the call of limiter l that hangs, if there is one
HungOn(l) == {c \in running[l] : <<l, c.seq>> \in hung}

\* C11: a call that hangs stays in flight for good, and while it does its
\* limiter launches nothing, whatever is submitted to it; the other limiter
\* is not held up: a limiter with a queued call and no call in flight can
\* launch it, whatever the state of the other limiter.
C11_HungCallStallsOnlyItsQueue ==
    /\ [][\A l \in Limiters :
             HungOn(l) # {} =>
                /\ running'[l] = running[l]
                /\ lastSeq'[l] = lastSeq[l] /\ lastStart'[l] = lastStart[l]
                /\ \A k \in 1..Len(queue[l]) : queue'[l][k] = queue[l][k]
                /\ \A c \in HungOn(l) : <<l, c.seq>> \in hung'
         ]_vars
    /\ [](\A l \in Limiters :
             Settled /\ queue[l] # <<>> /\ running[l] = {} => ENABLED Dispatch(l))

\* C11 witness: the quotes call hangs on the market limiter with the
\* symbol-details call queued behind it, while the account limiter has
\* launched a call after the quotes call was launched.
C11_Witness ==
    /\ \E c \in HungOn("marketLimiter") : c.kind = "quotes"
    /\ queue["marketLimiter"] # <<>>
    /\ running["limiter"] # {}
    /\ lastStart["limiter"] > lastStart["marketLimiter"]
\* ------------------------------------------- fetchBalance under failures ----
\* One owner whose credential has just expired, two accounts, one of them
\* with a position; the scheduled run (p1) and a force-balance request (p2)
\* contend, and every brokerage call, the exchange-rate request and every
\* store operation may fail.  The two accounts add up to a positive total or
\* to zero.
InitFetch ==
    /\ InitCommon
    /\ probe = NoProbe
    /\ now = SnapT0
    /\ tzOffset = CronZoneOffset
    /\ accountsOf = [o \in {"o1"} |-> <<[number |-> "a1", type |-> "TFSA"],
                                        [number |-> "a2", type |-> "RRSP"]>>]
    /\ \E e \in {200, 0 - 300} :
          equity = [a \in {"a1", "a2"} |-> IF a = "a1" THEN 300 ELSE e]
    /\ positionsOf = [a \in {"a1", "a2"} |->
                         IF a = "a1"
                         THEN <<[symbolId |-> 1, symbol |-> "XEQT", openQuantity |-> 2]>>
                         ELSE <<>>]
    /\ quoteOf = <<[symbolId |-> 1, symbol |-> "XEQT", lastTradePrice |-> 3050,
                    openPrice |-> 3000]>>
    /\ detailOf = <<[symbolId |-> 1, description |-> "equity etf",
                     prevDayClosePrice |-> <<2990>>]>>
    /\ ratesOffered = {135} /\ lifetimesOffered = {LimLifetime}
    /\ failingKinds = {"token", "accountNumbers", "accounts", "balance", "positions",
                       "quotes", "symbols", "exchangeRate", "store"}
    /\ dailyBalances = <<>> /\ lastWrite = <<>> /\ caches = <<>>
    /\ auths = <<Credential(1, SnapT0 - 1)>>

NextFetch ==
    \/ CronFire("p1")
    \/ StartForceBalance("p2")
    \/ \E p \in Procs : GetAuthsFind(p)
    \/ \E p \in Procs : GrantOk(p)
    \/ \E p \in Procs : GrantFailed(p)
    \/ \E p \in Procs : GetAuthsUpdateOne(p)
    \/ \E p \in Procs : StoreFailed(p)
    \/ \E p \in Procs : FetchBalanceAuths(p)
    \/ \E p \in Procs : HandleForceBalanceAuths(p)
    \/ \E p \in Procs : AccountNumbersOk(p)
    \/ \E p \in Procs : AggregateBalanceOk(p)
    \/ \E p \in Procs : CallFailed(p)
    \/ \E l \in Limiters : CompleteDropped(l)
    \/ \E p \in Procs : HandleForceBalanceTotal(p)
    \/ \E p \in Procs : HandleForceBalanceCatch(p)
    \/ \E p \in Procs : FetchBalanceTotal(p)
    \/ \E p \in Procs : UpdateDailyBalanceFind(p)
    \/ \E p \in Procs : UpdateDailyBalanceWrite(p)
    \/ \E p \in Procs : FetchBalanceUpdated(p)
    \/ \E p \in Procs : UpdateAccountsCacheAuths(p)
    \/ \E p \in Procs : UpdateAccountsCacheAccounts(p)
    \/ \E p \in Procs : UpdateAccountsCacheBalance(p)
    \/ \E p \in Procs : UpdateAccountsCacheWrite(p)
    \/ \E p \in Procs : FetchBalanceAccounts(p)
    \/ \E p \in Procs : UpdateSymbolsCacheAuths(p)
    \/ \E p \in Procs : UpdateSymbolsCacheAccounts(p)
    \/ \E p \in Procs : UpdateSymbolsCachePositions(p)
    \/ \E p \in Procs : UpdateSymbolsCacheFresh(p)
    \/ \E p \in Procs : UpdateSymbolsCacheMarket(p)
    \/ \E p \in Procs : UpdateSymbolsCacheWrite(p)
    \/ \E p \in Procs : FetchBalanceSymbols(p)
    \/ \E p \in Procs : ExchangeRateOk(p)
    \/ \E p \in Procs : ExchangeRateFailed(p)
    \/ \E p \in Procs : UpdateExchangeRateCacheWrite(p)
    \/ \E p \in Procs : FetchBalanceExchange(p)
    \/ \E p \in Procs : FetchBalanceCatch(p)
    \/ \E l \in Limiters : Dispatch(l)

SpecFetch == InitFetch /\ [][NextFetch]_vars

\* ------------------------------------------- properties of a failing run ----
Range(s) == {s[i] : i \in 1..Len(s)}

\* the places of name on p's trail
Places(p, name) == {i \in 1..Len(log[p]) : log[p][i] = name}

\* p runs, or ran, the operation op
Runs(p, op) == log[p] # <<>> /\ log[p][1] = op

\* the labels at which an operation waits for a brokerage call
BrokerageLabels ==
    {"ga_grant", "agg_wait", "uac_accounts", "uac_balance", "usc_accounts",
     "usc_positions", "usc_market"}

\* where an operation stands once a failure has been handed to the function
\* that made the call: in the catch block of fetchBalance or of
\* handleForceBalance, or behind the cache updater that caught it
RaisedTo ==
    {<<"fb_catch">>, <<"hfb_catch">>, <<"fb_afterAccounts">>, <<"fb_afterSymbols">>}

\* C12: a brokerage call answered with a non-success status is not retried.
\* Every launch of a call is the launch of a call that was never launched
\* before (the limiter's launch counter grows with it), and the step on which
\* an operation receives the failure of a brokerage call schedules nothing,
\* leaves the operation waiting for no call, and hands the failure to the
\* caller: the operation stands in the catch block above the failed function.
C12_FailedCallNotRetried ==
    [][/\ \A l \in Limiters :
             running'[l] \ running[l] # {} =>
                /\ lastSeq'[l] > lastSeq[l]
                /\ \A c \in running'[l] \ running[l] : c.seq = lastSeq'[l]
       /\ \A p \in Procs :
             rejected'[p] > rejected[p] /\ Head(pc[p]) \in BrokerageLabels =>
                /\ nextSeq' = nextSeq /\ queue' = queue
                /\ \A l \in Limiters : running'[l] \subseteq running[l]
                /\ awaiting'[p] = {}
                /\ pc'[p] \in RaisedTo
      ]_vars

\* a scheduled run has finished after a balance call failed inside
\* updateAccountsCache and a market call failed inside updateSymbolsCache:
\* each failure went to its updater and neither call was made again
C12_Witness ==
    /\ Runs("p1", "fetchBalance") /\ pc["p1"] = <<"done">>
    /\ "uac_balance" \in Range(log["p1"]) /\ "usc_market" \in Range(log["p1"])
    /\ rejected["p1"] = 2
    /\ \A l \in Limiters : queue[l] = <<>>

\* C13: the aggregation is all or nothing.  The step on which a call of the
\* aggregation (an account-numbers call or a balance call, of any owner)
\* fails takes the operation to its catch block; an operation whose
\* aggregation failed never calls updateDailyBalance, its scheduled run leaves
\* the daily snapshots as they were, and its force-balance request answers
\* { amount: 0, success: false } however much had been summed before.
C13_AggregationAllOrNothing ==
    /\ [][\A p \in Procs :
             At(p, "agg_wait") /\ rejected'[p] > rejected[p] =>
                /\ pc'[p] \in {<<"fb_catch">>, <<"hfb_catch">>}
                /\ dailyBalances' = dailyBalances
         ]_vars
    /\ [](\A p \in Procs :
             "agg_wait" \in Range(log[p]) =>
                /\ Head(pc[p]) \in {"fb_catch", "hfb_catch", "done"}
                /\ "updateDailyBalance" \notin Range(log[p])
                /\ Runs(p, "fetchBalance") => dailyBalances = <<>>
                /\ Runs(p, "handleForceBalance") /\ pc[p] = <<"done">> =>
                      result[p].body = [amount |-> 0, success |-> FALSE])

\* both operations have finished after one balance call of their aggregation
\* failed when the other account's equity was already in the sum
C13_Witness ==
    /\ \A p \in Procs : pc[p] = <<"done">> /\ Range(log[p]) \cap {"agg_wait"} # {}
    /\ \A p \in Procs : balance[p] = 300
    /\ dailyBalances = <<>>
    /\ result["p2"].body = [amount |-> 0, success |-> FALSE]

\* the labels at which a failure can reach an operation
FailureLabels == StoreLabels \cup BrokerageLabels \cup {"uerc_fetch"}

\* the failures on p's trail
Failures(p) == {i \in 1..Len(log[p]) : log[p][i] \in FailureLabels}

\* C17: no exception leaves fetchBalance.  Whatever fails during a scheduled
\* run (the credential read, a token exchange, a brokerage call, the
\* exchange-rate request, a store read or write), the run is never left with
\* an uncaught throw, and the step that delivers a failure to it leaves it
\* inside fetchBalance or in fetchBalance's catch block.
C17_FetchBalanceNeverThrows ==
    /\ [](\A p \in Procs : Runs(p, "fetchBalance") => pc[p] # <<"threw">>)
    /\ [][\A p \in Procs :
             Runs(p, "fetchBalance") /\ rejected'[p] > rejected[p] =>
                /\ pc'[p] # <<>>
                /\ TryOf(pc'[p][Len(pc'[p])]) = "fetchBalance"
                      \/ pc'[p] = <<"fb_catch">>
         ]_vars

\* a scheduled run has returned normally, the last event of the run being the
\* failure of a store operation, of a token exchange or of the exchange-rate
\* request
C17_Witness ==
    /\ Runs("p1", "fetchBalance") /\ pc["p1"] = <<"done">>
    /\ result["p1"].status = "returned"
    /\ Failures("p1") # {}
    /\ log["p1"][Len(log["p1"])] \in {"ga_find", "ga_grant", "uerc_fetch", "usc_updateOne"}

\* the cache updaters, in the order fetchBalance calls them
Updaters == <<"updateAccountsCache", "updateSymbolsCache", "updateExchangeRateCache">>

\* a scheduled run of p has returned
Finished(p) == Runs(p, "fetchBalance") /\ pc[p] = <<"done">>

\* a failure reached fetchBalance's own try block: it happened before
\* updateAccountsCache was called
FailedBeforeUpdaters(p) ==
    \E i \in Failures(p) : \A j \in Places(p, Updaters[1]) : i < j

\* C16 as stated: every run of fetchBalance that has returned has called the
\* three cache updaters, whatever failed before them.
C16_EveryRunCallsEveryUpdater ==
    \A p \in Procs :
        Finished(p) => \A k \in 1..3 : Places(p, Updaters[k]) # {}

\* C16, amended: a run of fetchBalance calls the three cache updaters, once
\* each and in their order, whether the total is positive or not and whether
\* or not an earlier updater failed, exactly when getAuths, the aggregation
\* and updateDailyBalance did not fail; after such a failure it calls none.
C16_UpdatersCalledUnlessBalanceFailed ==
    /\ [](\A p \in Procs :
             /\ \A k \in 1..3 : Cardinality(Places(p, Updaters[k])) <= 1
             /\ \A k \in 1..2 : \A j \in Places(p, Updaters[k + 1]) :
                   \E i \in Places(p, Updaters[k]) : i < j
             /\ Finished(p) =>
                   IF FailedBeforeUpdaters(p)
                   THEN \A k \in 1..3 : Places(p, Updaters[k]) = {}
                   ELSE \A k \in 1..3 : Places(p, Updaters[k]) # {})
    /\ [][\A p \in Procs :
             /\ Runs(p, "fetchBalance") /\ rejected'[p] > rejected[p]
             /\ Places(p, Updaters[1]) # {}
             => Head(pc'[p]) \in {"fb_afterAccounts", "fb_afterSymbols", "fb_afterExchange"}
         ]_vars

\* a run whose total is zero, in which updateAccountsCache and
\* updateSymbolsCache both failed, has called the three updaters and returned
C16_Witness ==
    /\ Finished("p1") /\ balance["p1"] = 0
    /\ "updateDailyBalance" \notin Range(log["p1"])
    /\ {"uac_balance", "usc_positions"} \subseteq Range(log["p1"])
    /\ \A k \in 1..3 : Places("p1", Updaters[k]) # {}

\* a failure reached p inside the k-th cache updater: after p called it and
\* before p called the next one
FailedInside(p, k) ==
    \E i \in Failures(p) :
        /\ \E j \in Places(p, Updaters[k]) : j < i
        /\ k < 3 => \A j \in Places(p, Updaters[k + 1]) : i < j

\* p is inside updateAccountsCache, called by fetchBalance
InAccountsCache(p) ==
    /\ Runs(p, "fetchBalance")
    /\ Places(p, Updaters[1]) # {} /\ Places(p, Updaters[2]) = {}
    /\ pc[p] # <<"fb_afterAccounts">>

\* C34: a failure inside updateAccountsCache does not keep a run of
\* fetchBalance from the other updaters.  The step that delivers the failure
\* returns the run to fetchBalance behind updateAccountsCache, with the
\* collection untouched, and a run that has returned after such a failure has
\* called updateSymbolsCache and updateExchangeRateCache after it.
C34_AccountsFailureDoesNotStopTheOthers ==
    /\ [][\A p \in Procs :
             InAccountsCache(p) /\ rejected'[p] > rejected[p] =>
                pc'[p] = <<"fb_afterAccounts">> /\ caches' = caches
         ]_vars
    /\ [](\A p \in Procs :
             Finished(p) /\ FailedInside(p, 1) =>
                \A k \in 2..3 : \E j \in Places(p, Updaters[k]) :
                    \A i \in Places(p, Updaters[1]) : i < j)

\* a run has returned in which updateAccountsCache failed and the two later
\* updaters wrote their documents: the collection holds the symbols and the
\* exchange-rate document and, as before the run, no accounts document
C34_Witness ==
    /\ Finished("p1") /\ FailedInside("p1", 1)
    /\ \A i \in Failures("p1") : \E j \in Places("p1", Updaters[2]) : i < j
    /\ MatchType("accounts") = {}
    /\ MatchType("symbols") # {} /\ MatchType("exchange-rate") # {}
\* ------------------------------------------------------- the aggregate ----
\* No, one or two owners with valid credentials; the first owner has no, one
\* or two accounts and the second owner one account whose equity makes the
\* total positive, zero or negative.  A snapshot of today may be there.  The
\* scheduled run (p1) and a force-balance request (p2) contend; account-number
\* and balance calls may fail.
InitTotals ==
    /\ InitCommon
    /\ probe = NoProbe
    /\ now = SnapT0
    /\ tzOffset = CronZoneOffset
    /\ \E n \in 0..2 :
          accountsOf = [o \in {"o1", "o2"} |->
                           IF o = "o2" THEN <<[number |-> "a3", type |-> "Cash"]>>
                           ELSE SubSeq(<<[number |-> "a1", type |-> "TFSA"],
                                         [number |-> "a2", type |-> "RRSP"]>>, 1, n)]
    /\ \E e \in {200, 0 - 550, 0 - 700} :
          equity = [a \in {"a1", "a2", "a3"} |->
                       IF a = "a1" THEN 300 ELSE IF a = "a2" THEN 250 ELSE e]
    /\ positionsOf = [a \in {"a1", "a2", "a3"} |->
                         IF a = "a1"
                         THEN <<[symbolId |-> 1, symbol |-> "XEQT", openQuantity |-> 2]>>
                         ELSE <<>>]
    /\ quoteOf = <<[symbolId |-> 1, symbol |-> "XEQT", lastTradePrice |-> 3050,
                    openPrice |-> 3000]>>
    /\ detailOf = <<[symbolId |-> 1, description |-> "equity etf",
                     prevDayClosePrice |-> <<2990>>]>>
    /\ ratesOffered = {135} /\ lifetimesOffered = {}
    /\ failingKinds = {"accountNumbers", "balance"}
    /\ \E had \in BOOLEAN :
          /\ dailyBalances = IF had THEN <<[date |-> StartOfDayLocal(SnapT0, CronZoneOffset),
                                            balance |-> 100]>>
                             ELSE <<>>
          /\ lastWrite = IF had THEN <<SnapT0 - MsPerMinute>> ELSE <<>>
    /\ caches = <<>>
    /\ \E n \in 0..2 :
          auths = SubSeq(<<Credential(1, SnapT0 + MsPerDay),
                           Credential(2, SnapT0 + MsPerDay)>>, 1, n)

NextTotals ==
    \/ CronFire("p1")
    \/ StartForceBalance("p2")
    \/ \E p \in Procs : GetAuthsFind(p)
    \/ \E p \in Procs : FetchBalanceAuths(p)
    \/ \E p \in Procs : HandleForceBalanceAuths(p)
    \/ \E p \in Procs : AccountNumbersOk(p)
    \/ \E p \in Procs : AggregateBalanceOk(p)
    \/ \E p \in Procs : CallFailed(p)
    \/ \E l \in Limiters : CompleteDropped(l)
    \/ \E p \in Procs : HandleForceBalanceTotal(p)
    \/ \E p \in Procs : HandleForceBalanceCatch(p)
    \/ \E p \in Procs : FetchBalanceTotal(p)
    \/ \E p \in Procs : UpdateDailyBalanceFind(p)
    \/ \E p \in Procs : UpdateDailyBalanceWrite(p)
    \/ \E p \in Procs : FetchBalanceUpdated(p)
    \/ \E p \in Procs : UpdateAccountsCacheAuths(p)
    \/ \E p \in Procs : UpdateAccountsCacheAccounts(p)
    \/ \E p \in Procs : UpdateAccountsCacheBalance(p)
    \/ \E p \in Procs : UpdateAccountsCacheWrite(p)
    \/ \E p \in Procs : FetchBalanceAccounts(p)
    \/ \E p \in Procs : UpdateSymbolsCacheAuths(p)
    \/ \E p \in Procs : UpdateSymbolsCacheAccounts(p)
    \/ \E p \in Procs : UpdateSymbolsCachePositions(p)
    \/ \E p \in Procs : UpdateSymbolsCacheFresh(p)
    \/ \E p \in Procs : UpdateSymbolsCacheMarket(p)
    \/ \E p \in Procs : UpdateSymbolsCacheWrite(p)
    \/ \E p \in Procs : FetchBalanceSymbols(p)
    \/ \E p \in Procs : ExchangeRateOk(p)
    \/ \E p \in Procs : UpdateExchangeRateCacheWrite(p)
    \/ \E p \in Procs : FetchBalanceExchange(p)
    \/ \E p \in Procs : FetchBalanceCatch(p)
    \/ \E l \in Limiters : Dispatch(l)

SpecTotals == InitTotals /\ [][NextTotals]_vars

\* ---- properties of the aggregate (SpecTotals) ----

\* the sum of the CAD total equity of the accounts accts
RECURSIVE SumEquity(_)
SumEquity(accts) ==
    IF accts = <<>> THEN 0 ELSE equity[Head(accts).number] + SumEquity(Tail(accts))

\* the sum over the credentials of list of the equity of their accounts
RECURSIVE TotalOf(_)
TotalOf(list) ==
    IF list = <<>> THEN 0
    ELSE SumEquity(accountsOf[Head(list).owner]) + TotalOf(Tail(list))

\* C14: when no call of the aggregation failed, the total the aggregation
\* resolves with, and the amount handleForceBalance returns with success,
\* is the sum over every stored credential and every account listed for it
\* of the account's equity: 0 with no credential or no account.  The balance
\* calls of the two concurrent operations complete interleaved.
C14_TotalIsSumOverAccounts ==
    \A p \in Procs :
        /\ Head(pc[p]) \in {"fb_afterTotal", "hfb_afterTotal"} =>
              balance[p] = TotalOf(auths)
        /\ Runs(p, "handleForceBalance") /\ pc[p] = <<"done">> /\ rejected[p] = 0 =>
              result[p].body = [amount |-> TotalOf(auths), success |-> TRUE]

\* the force-balance request has answered 750, the sum of the three accounts
\* of the two owners, while the scheduled run was aggregating
C14_Witness ==
    /\ Len(auths) = 2 /\ Len(accountsOf["o1"]) = 2
    /\ pc["p2"] = <<"done">>
    /\ result["p2"].body = [amount |-> 750, success |-> TRUE]
    /\ At("p1", "agg_wait") /\ balance["p1"] = 300

\* the snapshot of today's date with the balance b
TodaySnapshot(b) == <<[date |-> StartOfDayLocal(now, tzOffset), balance |-> b]>>

\* C15: fetchBalance upserts today's snapshot exactly when the aggregation
\* succeeded with a positive total.  A scheduled run that has returned has
\* called updateDailyBalance if and only if no call of its aggregation failed
\* and the total is positive, and then the one snapshot of today holds the
\* total; the only step that creates or modifies a snapshot is the write of
\* such a run.
C15_SnapshotOnlyForPositiveTotal ==
    /\ [](\A p \in Procs :
             Finished(p) =>
                IF "agg_wait" \notin Range(log[p]) /\ TotalOf(auths) > 0
                THEN /\ "updateDailyBalance" \in Range(log[p])
                     /\ dailyBalances = TodaySnapshot(TotalOf(auths))
                ELSE "updateDailyBalance" \notin Range(log[p]))
    /\ [][dailyBalances' # dailyBalances \/ lastWrite' # lastWrite =>
             \E p \in Procs :
                /\ Runs(p, "fetchBalance") /\ At(p, "udb_write")
                /\ "agg_wait" \notin Range(log[p])
                /\ TotalOf(auths) > 0
                /\ dailyBalances' = TodaySnapshot(TotalOf(auths))
         ]_vars

\* a scheduled run has returned after aggregating a negative total: it did
\* not call updateDailyBalance and the snapshot that was there is as it was
C15_Witness ==
    /\ Finished("p1") /\ rejected["p1"] = 0
    /\ TotalOf(auths) < 0 /\ balance["p1"] = TotalOf(auths)
    /\ "updateDailyBalance" \notin Range(log["p1"])
    /\ dailyBalances = TodaySnapshot(100)

\* the force-balance request p advances in the step
ForceBalanceStep(p) ==
    /\ Runs(p, "handleForceBalance")
    /\ <<pc[p], awaiting[p], balance[p], authList[p], result[p]>>
          # <<pc'[p], awaiting'[p], balance'[p], authList'[p], result'[p]>>

\* C25: no step of a force-balance request creates or modifies a daily
\* snapshot or a singleton cache document, every step that does is a write of
\* another operation, and the amount the request returns with success is the
\* sum of the equities the brokerage answered with, whatever snapshot and
\* caches are stored.
C25_ForceBalanceBypassesCache ==
    [][/\ \A p \in Procs :
             ForceBalanceStep(p) =>
                /\ dailyBalances' = dailyBalances /\ lastWrite' = lastWrite
                /\ caches' = caches
                /\ pc'[p] = <<"done">> /\ result'[p].body.success =>
                      result'[p].body.amount = TotalOf(auths)
       /\ dailyBalances' # dailyBalances \/ caches' # caches =>
             \E q \in Procs :
                /\ ~Runs(q, "handleForceBalance")
                /\ Head(pc[q]) \in {"udb_write", "uac_updateOne", "usc_updateOne",
                                    "uerc_updateOne"}
                /\ pc'[q] # pc[q]
      ]_vars

\* the force-balance request has answered with a negative sum of equities
\* while a snapshot of 100 is stored for today and the scheduled run has
\* written the accounts cache
C25_Witness ==
    /\ pc["p2"] = <<"done">>
    /\ TotalOf(auths) < 0
    /\ result["p2"].body = [amount |-> TotalOf(auths), success |-> TRUE]
    /\ \E i \in 1..Len(dailyBalances) : dailyBalances[i].balance = 100
    /\ caches # <<>>
\* -------------------------------------------- GET /investments/dashboard ----
\* getYesterdayBalance() is called: the filter date is the start of the UTC
\* day before today; findOne is sent
CallGetYesterdayBalance(p, ret) ==
    /\ todayDate' = [todayDate EXCEPT ![p] = StartOfDayUtc(now) - MsPerDay]
    /\ pc' = [pc EXCEPT ![p] = <<"gyb_findOne">> \o ret]

\* getYesterdayBalance's findOne({ date }, { sort: { date: -1 } }) completes:
\* yesterdayLatest?.balance (<<>>: undefined).  Among several documents of
\* the date the store returns any one.
GetYesterdayBalance(p) ==
    /\ Settled
    /\ At(p, "gyb_findOne")
    /\ \/ /\ MatchDate(todayDate[p]) = {}
          /\ returned' = [returned EXCEPT ![p] = <<>>]
       \/ \E i \in MatchDate(todayDate[p]) :
             returned' = [returned EXCEPT ![p] = <<dailyBalances[i].balance>>]
    /\ pc' = [pc EXCEPT ![p] = Tail(@)]
    /\ UNCHANGED <<outerVars, storeVars, upstreamVars, limiterVars, awaiting, histVars,
                   balance, todayDate, current, authVars, cacheVars, result, dash>>

\* the number of days getHistoricalData looks back
HistoryDays == 365

\* dayjs(date).format('YYYY-MM-DD'): the calendar day of the process's zone
\* the instant falls on, as a day number
FormatDay(t, off) == (t + off) \div MsPerDay

\* the documents left as the store returned them
SortByDateSkipped(docs) == docs

\* balances.sort((a, b) => a.date - b.date): a stable sort by date
RECURSIVE SortByDate(_)
SortByDate(docs) ==
    IF docs = <<>> THEN <<>>
    ELSE LET first == Min({i \in 1..Len(docs) :
                              \A j \in 1..Len(docs) : docs[i].date <= docs[j].date})
         IN <<docs[first]>>
            \o SortByDate([k \in 1..(Len(docs) - 1) |->
                              IF k < first THEN docs[k] ELSE docs[k + 1]])

\* date >= cutoffDate, where cutoffDate is the start of the local day
\* days days before t; the two are compared in whole days
SinceCutoffDays(date, t, off, days) ==
    (date - StartOfDayLocal(t, off)) \div MsPerDay >= 0 - days

\* find({ date: { $gte: cutoffDate }, balance: { $exists: true } }).toArray():
\* the matching documents of docs in natural order; a document without a
\* date matches no comparison
RECURSIVE FindSince(_, _, _, _)
FindSince(docs, days, t, off) ==
    IF docs = <<>> THEN <<>>
    ELSE IF /\ "date" \in DOMAIN Head(docs)
            /\ "balance" \in DOMAIN Head(docs)
            /\ SinceCutoffDays(Head(docs).date, t, off, days)
         THEN <<Head(docs)>> \o FindSince(Tail(docs), days, t, off)
         ELSE FindSince(Tail(docs), days, t, off)

\* what getHistoricalData(days) returns at time t: the documents found, by
\* date ascending, as { date: 'YYYY-MM-DD', value }
HistoricalData(days, t, off) ==
    LET sorted == SortByDate(FindSince(Investments, days, t, off))
    IN [i \in 1..Len(sorted) |->
           [date |-> FormatDay(sorted[i].date, off), value |-> sorted[i].balance]]

\* getHistoricalData's find completes
GetHistoricalData(p) ==
    /\ Settled
    /\ At(p, "ghd_find")
    /\ returned' = [returned EXCEPT ![p] = HistoricalData(HistoryDays, now, tzOffset)]
    /\ pc' = [pc EXCEPT ![p] = Tail(@)]
    /\ UNCHANGED <<outerVars, storeVars, upstreamVars, limiterVars, awaiting, histVars,
                   balance, todayDate, current, authVars, cacheVars, result, dash>>

\* the request arrives: the handler calls getLatestBalance
StartDashboard(p) ==
    /\ Settled
    /\ pc[p] = <<"idle">>
    /\ Logs(p, "dashboard")
    /\ dash' = [dash EXCEPT ![p] = NoDash]
    /\ pc' = [pc EXCEPT ![p] = <<"glb_findOne", "dash_latest">>]
    /\ UNCHANGED <<outerVars, storeVars, upstreamVars, limiterVars, awaiting,
                   balanceVars, authVars, cacheVars, result>>

\* latestBalance = await getLatestBalance(); getYesterdayBalance is called
DashboardLatest(p) ==
    /\ At(p, "dash_latest")
    /\ dash' = [dash EXCEPT ![p].latest = returned[p][1]]
    /\ CallGetYesterdayBalance(p, <<"dash_yesterday">>)
    /\ UNCHANGED <<outerVars, storeVars, upstreamVars, limiterVars, awaiting, histVars,
                   balance, current, returned, authVars, cacheVars, result>>

\* changePercent without the test of yesterday's sign
ChangePercentUnguarded(latest, yesterday) ==
    IF yesterday # <<>> /\ yesterday[1] # 0
    THEN RoundDiv((latest - yesterday[1]) * 10000, yesterday[1])
    ELSE 0

\* Math.round(((latest - yesterday) / yesterday) * 10000) / 100 when there is
\* a positive balance of yesterday, else 0; in hundredths of a percent
ChangePercent(latest, yesterday) ==
    IF yesterday # <<>> /\ yesterday[1] > 0
    THEN RoundDiv((latest - yesterday[1]) * 10000, yesterday[1])
    ELSE 0

\* yesterdayBalance = await getYesterdayBalance(): changePercent is computed
\* and getHistoricalData(365) is called
DashboardYesterday(p) ==
    /\ At(p, "dash_yesterday")
    /\ dash' = [dash EXCEPT ![p].changePercent = ChangePercent(dash[p].latest, returned[p])]
    /\ pc' = [pc EXCEPT ![p] = <<"ghd_find", "dash_history">>]
    /\ UNCHANGED <<outerVars, storeVars, upstreamVars, limiterVars, awaiting, histVars,
                   balanceVars, authVars, cacheVars, result>>

\* history = await getHistoricalData(365): findOne({ type: 'accounts' }) is sent
DashboardHistory(p) ==
    /\ At(p, "dash_history")
    /\ dash' = [dash EXCEPT ![p].history = returned[p]]
    /\ pc' = [pc EXCEPT ![p] = <<"dash_accounts">>]
    /\ UNCHANGED <<outerVars, storeVars, upstreamVars, limiterVars, awaiting, histVars,
                   balanceVars, authVars, cacheVars, result>>

\* the three singletons in the order the handler reads them: the type of the
\* document, the handler's local, and the labels of the first read, of the
\* return of the updater and of the second read
CacheTypes == <<"accounts", "symbols", "exchange-rate">>
DashLocal == <<"accounts", "symbols", "rate">>
DashRead == <<"dash_accounts", "dash_symbols", "dash_rate">>
DashAfter == <<"dash_afterAccounts", "dash_afterSymbols", "dash_afterRate">>
DashAgain == <<"dash_accountsAgain", "dash_symbolsAgain", "dash_rateAgain">>

\* collection.findOne({ type: t }) (<<>>: null)
FindCache(t) == IF MatchType(t) = {} THEN <<>> ELSE <<caches[Min(MatchType(t))]>>

\* symbolsCache?.updatedAt || accountsCache?.updatedAt || new Date()
LastUpdated(symbols, accounts, t) ==
    IF symbols # <<>> THEN symbols[1].updatedAt
    ELSE IF accounts # <<>> THEN accounts[1].updatedAt
    ELSE t

\* the body of the response built from the handler's locals d at time t;
\* the timestamps stand for their ISO strings
DashboardBody(d, t) ==
    [totalPortfolio |-> [amount |-> d.latest, changePercent |-> d.changePercent,
                         history |-> d.history],
     accounts |-> IF d.accounts = <<>> THEN <<>> ELSE d.accounts[1].accounts,
     symbols |-> IF d.symbols = <<>> THEN <<>> ELSE d.symbols[1].symbols,
     exchangeRate |-> [usdToCad |-> IF d.rate = <<>> THEN 0 ELSE d.rate[1].usdToCad,
                       updatedAt |-> IF d.rate = <<>> THEN t ELSE d.rate[1].updatedAt],
     lastUpdated |-> LastUpdated(d.symbols, d.accounts, t)]

\* the handler goes on with singleton k read as found: the first read of the
\* next singleton, or after the last the response 200 with the dashboard
DashboardGoOn(p, k, found) ==
    LET d == [dash[p] EXCEPT ![DashLocal[k]] = found] IN
    /\ dash' = [dash EXCEPT ![p] = d]
    /\ IF k < 3
       THEN /\ pc' = [pc EXCEPT ![p] = <<DashRead[k + 1]>>]
            /\ UNCHANGED result
       ELSE /\ pc' = [pc EXCEPT ![p] = <<"done">>]
            /\ result' = [result EXCEPT ![p] =
                             [status |-> "200", body |-> DashboardBody(d, now)]]

\* the first read of singleton k completes: if there is no document the
\* updater is called (updateExchangeRateCache sends its fetch at once)
DashboardRead(p, k) ==
    /\ Settled
    /\ At(p, DashRead[k])
    /\ IF FindCache(CacheTypes[k]) # <<>>
       THEN /\ DashboardGoOn(p, k, FindCache(CacheTypes[k]))
            /\ UNCHANGED <<histVars, direct>>
       ELSE /\ Logs(p, Updaters[k])
            /\ pc' = [pc EXCEPT ![p] =
                         IF k = 1 THEN <<"ga_find", "uac_afterAuths", DashAfter[k]>>
                         ELSE IF k = 2 THEN <<"ga_find", "usc_afterAuths", DashAfter[k]>>
                         ELSE <<"uerc_fetch", DashAfter[k]>>]
            /\ direct' = IF k = 3 THEN direct \cup {[proc |-> p, kind |-> "exchangeRate"]}
                         ELSE direct
            /\ UNCHANGED <<result, dash>>
    /\ UNCHANGED <<outerVars, storeVars, issued, limiterVars, awaiting,
                   balanceVars, authVars, cacheVars>>

\* the updater returned: findOne is sent again
DashboardAfterUpdate(p, k) ==
    /\ At(p, DashAfter[k])
    /\ pc' = [pc EXCEPT ![p] = <<DashAgain[k]>>]
    /\ UNCHANGED <<outerVars, storeVars, upstreamVars, limiterVars, awaiting, histVars,
                   balanceVars, authVars, cacheVars, result, dash>>

\* the updater is called again for as long as the document is missing
DashboardReadAgainLoops(p, k) ==
    /\ Settled
    /\ At(p, DashAgain[k])
    /\ IF FindCache(CacheTypes[k]) # <<>>
       THEN /\ DashboardGoOn(p, k, FindCache(CacheTypes[k]))
            /\ UNCHANGED <<histVars, direct>>
       ELSE /\ Logs(p, Updaters[k])
            /\ pc' = [pc EXCEPT ![p] =
                         IF k = 1 THEN <<"ga_find", "uac_afterAuths", DashAfter[k]>>
                         ELSE IF k = 2 THEN <<"ga_find", "usc_afterAuths", DashAfter[k]>>
                         ELSE <<"uerc_fetch", DashAfter[k]>>]
            /\ direct' = IF k = 3 THEN direct \cup {[proc |-> p, kind |-> "exchangeRate"]}
                         ELSE direct
            /\ UNCHANGED <<result, dash>>
    /\ UNCHANGED <<outerVars, storeVars, issued, limiterVars, awaiting,
                   balanceVars, authVars, cacheVars>>

\* the second read of singleton k completes: the handler goes on with what
\* it found, a document or null
DashboardReadAgain(p, k) ==
    /\ Settled
    /\ At(p, DashAgain[k])
    /\ DashboardGoOn(p, k, FindCache(CacheTypes[k]))
    /\ UNCHANGED <<outerVars, storeVars, upstreamVars, limiterVars, awaiting, histVars,
                   balanceVars, authVars, cacheVars>>

\* the catch block answers 200 with what the handler has read so far
DashboardCatchPartial(p) ==
    /\ At(p, "dash_catch")
    /\ pc' = [pc EXCEPT ![p] = <<"done">>]
    /\ result' = [result EXCEPT ![p] = [status |-> "200", body |-> DashboardBody(dash[p], now)]]
    /\ UNCHANGED <<outerVars, storeVars, upstreamVars, limiterVars, awaiting, histVars,
                   balanceVars, authVars, cacheVars, dash>>

\* the handler's catch block: response.sendStatus(500)
DashboardCatch(p) ==
    /\ At(p, "dash_catch")
    /\ pc' = [pc EXCEPT ![p] = <<"done">>]
    /\ result' = [result EXCEPT ![p] = [status |-> "500", body |-> <<>>]]
    /\ UNCHANGED <<outerVars, storeVars, upstreamVars, limiterVars, awaiting, histVars,
                   balanceVars, authVars, cacheVars, dash>>
\* ------------------------------------------------- the dashboard request ----
\* One owner with a valid credential and one account holding one position;
\* the collection holds the snapshot written the day before and no cache.
\* Two dashboard requests contend; no call and no store operation fails.
InitDashboard ==
    /\ InitCommon
    /\ probe = NoProbe
    /\ now = SnapT0
    /\ tzOffset = CronZoneOffset
    /\ accountsOf = [o \in {"o1"} |-> <<[number |-> "a1", type |-> "TFSA"]>>]
    /\ equity = [a \in {"a1"} |-> SnapEquity]
    /\ positionsOf = [a \in {"a1"} |->
                         <<[symbolId |-> 1, symbol |-> "XEQT", openQuantity |-> 2]>>]
    /\ quoteOf = <<[symbolId |-> 1, symbol |-> "XEQT", lastTradePrice |-> 3050,
                    openPrice |-> 3000]>>
    /\ detailOf = <<[symbolId |-> 1, description |-> "equity etf",
                     prevDayClosePrice |-> <<2990>>]>>
    /\ ratesOffered = {135} /\ lifetimesOffered = {}
    /\ failingKinds = {}
    /\ dailyBalances = <<[date |-> StartOfDayLocal(SnapT0 - MsPerDay, CronZoneOffset),
                          balance |-> 400]>>
    /\ lastWrite = <<SnapT0 - MsPerDay>>
    /\ caches = <<>>
    /\ auths = <<Credential(1, SnapT0 + MsPerDay)>>

NextDashboard ==
    \/ \E p \in Procs : StartDashboard(p)
    \/ \E p \in Procs : GetLatestBalance(p)
    \/ \E p \in Procs : DashboardLatest(p)
    \/ \E p \in Procs : GetYesterdayBalance(p)
    \/ \E p \in Procs : DashboardYesterday(p)
    \/ \E p \in Procs : GetHistoricalData(p)
    \/ \E p \in Procs : DashboardHistory(p)
    \/ \E p \in Procs : \E k \in 1..3 : DashboardRead(p, k)
    \/ \E p \in Procs : \E k \in 1..3 : DashboardAfterUpdate(p, k)
    \/ \E p \in Procs : \E k \in 1..3 : DashboardReadAgain(p, k)
    \/ \E p \in Procs : GetAuthsFind(p)
    \/ \E p \in Procs : UpdateAccountsCacheAuths(p)
    \/ \E p \in Procs : UpdateAccountsCacheAccounts(p)
    \/ \E p \in Procs : UpdateAccountsCacheBalance(p)
    \/ \E p \in Procs : UpdateAccountsCacheWrite(p)
    \/ \E p \in Procs : UpdateSymbolsCacheAuths(p)
    \/ \E p \in Procs : UpdateSymbolsCacheAccounts(p)
    \/ \E p \in Procs : UpdateSymbolsCachePositions(p)
    \/ \E p \in Procs : UpdateSymbolsCacheFresh(p)
    \/ \E p \in Procs : UpdateSymbolsCacheMarket(p)
    \/ \E p \in Procs : UpdateSymbolsCacheWrite(p)
    \/ \E p \in Procs : ExchangeRateOk(p)
    \/ \E p \in Procs : UpdateExchangeRateCacheWrite(p)
    \/ \E l \in Limiters : Dispatch(l)

SpecDashboard == InitDashboard /\ [][NextDashboard]_vars
\* ---- properties of the dashboard response (SpecDashboard) ----

\* the later of the updatedAt of the cache documents read, t if none was read
MostRecent(symbols, accounts, t) ==
    IF symbols = <<>> /\ accounts = <<>> THEN t
    ELSE Max({d[1].updatedAt : d \in {symbols, accounts} \ {<<>>}})

\* C19: the lastUpdated of a dashboard response is the more recent of the
\* updatedAt of the symbols cache and of the accounts cache the handler read
\* (the one there is if only one was found), and the time of the response if
\* it found neither.
C19_LastUpdatedIsMostRecent ==
    [][\A p \in Procs :
          result[p].status = "pending" /\ result'[p].status = "200" =>
             result'[p].body.lastUpdated =
                MostRecent(dash'[p].symbols, dash'[p].accounts, now)
      ]_vars
\* ------------------------------------------- one dashboard request alone ----
\* the cache documents an earlier run left behind
StoredCache(k) ==
    IF k = 1
    THEN [type |-> "accounts", updatedAt |-> SnapT0 - MsPerHour,
          accounts |-> <<[accountNumber |-> "a1", accountType |-> "TFSA", owner |-> "o1",
                          balance |-> 450]>>]
    ELSE IF k = 2
    THEN [type |-> "symbols", updatedAt |-> SnapT0 - MsPerHour + MsPerSecond,
          symbols |-> <<[symbol |-> "XEQT", symbolId |-> 1, description |-> "equity etf",
                         dayChangePercent |-> 150]>>]
    ELSE [type |-> "exchange-rate", updatedAt |-> SnapT0 - MsPerHour + MsPerSecond,
          usdToCad |-> 134]

\* the cache documents of S, in the order of CacheTypes
RECURSIVE StoredCaches(_, _)
StoredCaches(S, k) ==
    IF k > 3 THEN <<>>
    ELSE (IF k \in S THEN <<StoredCache(k)>> ELSE <<>>) \o StoredCaches(S, k + 1)

\* One owner with a valid credential and one account holding one position;
\* any of the three cache documents may be there.  One dashboard request
\* runs; every brokerage call of the updaters, the exchange-rate request and
\* every store operation may fail.
InitLazy ==
    /\ InitCommon
    /\ probe = NoProbe
    /\ now = SnapT0
    /\ tzOffset = CronZoneOffset
    /\ accountsOf = [o \in {"o1"} |-> <<[number |-> "a1", type |-> "TFSA"]>>]
    /\ equity = [a \in {"a1"} |-> SnapEquity]
    /\ positionsOf = [a \in {"a1"} |->
                         <<[symbolId |-> 1, symbol |-> "XEQT", openQuantity |-> 2]>>]
    /\ quoteOf = <<[symbolId |-> 1, symbol |-> "XEQT", lastTradePrice |-> 3050,
                    openPrice |-> 3000]>>
    /\ detailOf = <<[symbolId |-> 1, description |-> "equity etf",
                     prevDayClosePrice |-> <<2990>>]>>
    /\ ratesOffered = {135} /\ lifetimesOffered = {}
    /\ failingKinds = {"accounts", "balance", "positions", "quotes", "symbols",
                       "exchangeRate", "store"}
    /\ dailyBalances = <<[date |-> StartOfDayLocal(SnapT0 - MsPerDay, CronZoneOffset),
                          balance |-> 400]>>
    /\ lastWrite = <<SnapT0 - MsPerDay>>
    /\ \E S \in SUBSET (1..3) : caches = StoredCaches(S, 1)
    /\ auths = <<Credential(1, SnapT0 + MsPerDay)>>

NextLazy ==
    \/ StartDashboard("p1")
    \/ \E p \in Procs : GetLatestBalance(p)
    \/ \E p \in Procs : DashboardLatest(p)
    \/ \E p \in Procs : GetYesterdayBalance(p)
    \/ \E p \in Procs : DashboardYesterday(p)
    \/ \E p \in Procs : GetHistoricalData(p)
    \/ \E p \in Procs : DashboardHistory(p)
    \/ \E p \in Procs : \E k \in 1..3 : DashboardRead(p, k)
    \/ \E p \in Procs : \E k \in 1..3 : DashboardAfterUpdate(p, k)
    \/ \E p \in Procs : \E k \in 1..3 : DashboardReadAgain(p, k)
    \/ \E p \in Procs : DashboardCatch(p)
    \/ \E p \in Procs : StoreFailed(p)
    \/ \E p \in Procs : GetAuthsFind(p)
    \/ \E p \in Procs : CallFailed(p)
    \/ \E l \in Limiters : CompleteDropped(l)
    \/ \E p \in Procs : UpdateAccountsCacheAuths(p)
    \/ \E p \in Procs : UpdateAccountsCacheAccounts(p)
    \/ \E p \in Procs : UpdateAccountsCacheBalance(p)
    \/ \E p \in Procs : UpdateAccountsCacheWrite(p)
    \/ \E p \in Procs : UpdateSymbolsCacheAuths(p)
    \/ \E p \in Procs : UpdateSymbolsCacheAccounts(p)
    \/ \E p \in Procs : UpdateSymbolsCachePositions(p)
    \/ \E p \in Procs : UpdateSymbolsCacheFresh(p)
    \/ \E p \in Procs : UpdateSymbolsCacheMarket(p)
    \/ \E p \in Procs : UpdateSymbolsCacheWrite(p)
    \/ \E p \in Procs : ExchangeRateOk(p)
    \/ \E p \in Procs : ExchangeRateFailed(p)
    \/ \E p \in Procs : UpdateExchangeRateCacheWrite(p)
    \/ \E l \in Limiters : Dispatch(l)

SpecLazy == InitLazy /\ [][NextLazy]_vars

\* ---- properties of the lazy population (SpecLazy) ----

\* the awaits of the handler itself, outside the updaters
HandlerLabels ==
    {"glb_findOne", "gyb_findOne", "ghd_find"} \cup Range(DashRead) \cup Range(DashAgain)

\* the step of p receives no failure
Succeeds(p) == rejected'[p] = rejected[p]

\* C18: the dashboard populates a missing singleton lazily, once.  For each
\* of the three singletons: the first read calls the updater exactly when it
\* finds no document; the updater's failures stay inside the updater; the
\* second read calls nothing, whatever it finds, and the handler goes on to
\* the next singleton or to the response; so each updater is called at most
\* once per request.  A singleton still missing shows as an empty list
\* (accounts, symbols) or as the rate 0, and the response is 200 unless one
\* of the handler's own store reads failed.
C18_LazyPopulateOnce ==
    /\ [][\A p \in Procs : \A k \in 1..3 :
             /\ At(p, DashRead[k]) /\ Succeeds(p) /\ pc'[p] # pc[p] =>
                   IF FindCache(CacheTypes[k]) = <<>>
                   THEN /\ log'[p] = Append(log[p], Updaters[k])
                        /\ pc'[p][Len(pc'[p])] = DashAfter[k]
                   ELSE /\ log'[p] = log[p]
                        /\ dash'[p][DashLocal[k]] = FindCache(CacheTypes[k])
                        /\ pc'[p] \in {<<DashRead[IF k < 3 THEN k + 1 ELSE k]>>, <<"done">>}
             /\ pc[p][Len(pc[p])] = DashAfter[k] /\ ~Succeeds(p) =>
                   pc'[p] = <<DashAfter[k]>>
             /\ At(p, DashAgain[k]) /\ Succeeds(p) /\ pc'[p] # pc[p] =>
                   /\ log'[p] = log[p]
                   /\ dash'[p][DashLocal[k]] = FindCache(CacheTypes[k])
                   /\ pc'[p] = IF k < 3 THEN <<DashRead[k + 1]>> ELSE <<"done">>
         ]_vars
    /\ [](\A p \in Procs :
             /\ \A k \in 1..3 : Cardinality(Places(p, Updaters[k])) <= 1
             /\ Runs(p, "dashboard") /\ pc[p] = <<"done">> =>
                   IF Range(log[p]) \cap HandlerLabels # {}
                   THEN result[p].status = "500"
                   ELSE /\ result[p].status = "200"
                        /\ dash[p].accounts = <<>> => result[p].body.accounts = <<>>
                        /\ dash[p].symbols = <<>> => result[p].body.symbols = <<>>
                        /\ dash[p].rate = <<>> => result[p].body.exchangeRate.usdToCad = 0)

\* a request that found none of the three singletons has called each updater
\* once, each updater failed upstream, the second reads found nothing, and
\* the response is 200 with empty accounts, empty symbols and the rate 0
C18_Witness ==
    /\ pc["p1"] = <<"done">> /\ result["p1"].status = "200"
    /\ \A k \in 1..3 : Cardinality(Places("p1", Updaters[k])) = 1
    /\ rejected["p1"] = 3
    /\ {"uac_balance", "usc_market", "uerc_fetch"} \subseteq Range(log["p1"])
    /\ caches = <<>>
    /\ result["p1"].body.accounts = <<>> /\ result["p1"].body.symbols = <<>>
    /\ result["p1"].body.exchangeRate.usdToCad = 0

\* b is a complete dashboard: every part of the response is there, as the
\* handler p read it
CompleteDashboard(b, p) ==
    /\ DOMAIN b = {"totalPortfolio", "accounts", "symbols", "exchangeRate", "lastUpdated"}
    /\ DOMAIN b.totalPortfolio = {"amount", "changePercent", "history"}
    /\ b.totalPortfolio = [amount |-> dash[p].latest,
                           changePercent |-> dash[p].changePercent,
                           history |-> dash[p].history]
    /\ DOMAIN b.exchangeRate = {"usdToCad", "updatedAt"}
    /\ dash[p].accounts # <<>> => b.accounts = dash[p].accounts[1].accounts
    /\ dash[p].symbols # <<>> => b.symbols = dash[p].symbols[1].symbols
    /\ dash[p].rate # <<>> => b.exchangeRate.usdToCad = dash[p].rate[1].usdToCad

\* C26: a failure of one of the dashboard handler's own store reads (latest
\* balance, yesterday's balance, history, a singleton) takes the handler to
\* its catch block and the response is a bare 500; a response is either 200
\* with the complete dashboard or 500 without a body; a response that was
\* sent is never followed by another one, and a request that has ended has
\* sent one.
C26_OneResponseCompleteOrBare500 ==
    /\ [][\A p \in Procs :
             /\ Head(pc[p]) \in HandlerLabels /\ ~Succeeds(p) =>
                   pc'[p] = <<"dash_catch">> /\ result'[p] = NoResult
             /\ At(p, "dash_catch") /\ pc'[p] # pc[p] =>
                   pc'[p] = <<"done">> /\ result'[p] = [status |-> "500", body |-> <<>>]
             /\ result[p] # NoResult => result'[p] = result[p]
         ]_vars
    /\ [](\A p \in Procs :
             /\ \/ result[p] = NoResult
                \/ result[p].status = "200" /\ CompleteDashboard(result[p].body, p)
                \/ result[p] = [status |-> "500", body |-> <<>>]
             /\ pc[p] = <<"done">> <=> result[p] # NoResult
             /\ result[p].status = "200" => Range(log[p]) \cap HandlerLabels = {})

\* the read of the history failed after the latest balance had been read:
\* the response is the bare 500
C26_Witness ==
    /\ pc["p1"] = <<"done">>
    /\ result["p1"] = [status |-> "500", body |-> <<>>]
    /\ "ghd_find" \in Range(log["p1"])
    /\ dash["p1"].latest = 400
\* ------------------------- GET /investments/balance/percentage-change ----
\* latest / yesterday as JavaScript computes it: a number (kept as the
\* fraction num / den), NaN when yesterday is undefined or both are 0, an
\* infinity when only yesterday is 0
Ratio(latest, yesterday) ==
    IF yesterday = <<>> THEN [kind |-> "NaN", num |-> 0, den |-> 0]
    ELSE IF yesterday[1] # 0 THEN [kind |-> "number", num |-> latest, den |-> yesterday[1]]
    ELSE IF latest = 0 THEN [kind |-> "NaN", num |-> 0, den |-> 0]
    ELSE [kind |-> IF latest > 0 THEN "Infinity" ELSE "-Infinity", num |-> 0, den |-> 0]

\* the request arrives: handlePercentageChange calls getLatestBalance
StartPercentageChange(p) ==
    /\ Settled
    /\ pc[p] = <<"idle">>
    /\ Logs(p, "handlePercentageChange")
    /\ pc' = [pc EXCEPT ![p] = <<"glb_findOne", "hpc_latest">>]
    /\ UNCHANGED <<outerVars, storeVars, upstreamVars, limiterVars, awaiting,
                   balanceVars, authVars, cacheVars, result, dash>>

\* latest = await getLatestBalance(); getYesterdayBalance is called
HandlePercentageChangeLatest(p) ==
    /\ At(p, "hpc_latest")
    /\ balance' = [balance EXCEPT ![p] = returned[p][1]]
    /\ CallGetYesterdayBalance(p, <<"hpc_yesterday">>)
    /\ UNCHANGED <<outerVars, storeVars, upstreamVars, limiterVars, awaiting, histVars,
                   current, returned, authVars, cacheVars, result, dash>>

\* yesterday = await getYesterdayBalance(): the handler returns
\* { ratio: latest / yesterday, success: true } and the route sends the
\* ratio with status 200
HandlePercentageChangeYesterday(p) ==
    /\ At(p, "hpc_yesterday")
    /\ pc' = [pc EXCEPT ![p] = <<"done">>]
    /\ result' = [result EXCEPT ![p] =
                     [status |-> "200", body |-> Ratio(balance[p], returned[p])]]
    /\ UNCHANGED <<outerVars, storeVars, upstreamVars, limiterVars, awaiting, histVars,
                   balanceVars, authVars, cacheVars, dash>>

\* the handler's catch block returns { ratio: 0, success: false }: the route
\* answers with sendStatus(500)
HandlePercentageChangeCatch(p) ==
    /\ At(p, "hpc_catch")
    /\ pc' = [pc EXCEPT ![p] = <<"done">>]
    /\ result' = [result EXCEPT ![p] = [status |-> "500", body |-> <<>>]]
    /\ UNCHANGED <<outerVars, storeVars, upstreamVars, limiterVars, awaiting, histVars,
                   balanceVars, authVars, cacheVars, dash>>

\* the snapshots fetchBalance wrote on the n last days up to the day of t, in
\* a process of zone off: one per day, at the start of the local day
RECURSIVE SnapshotsUpTo(_, _, _)
SnapshotsUpTo(t, off, n) ==
    IF n = 0 THEN <<>>
    ELSE Append(SnapshotsUpTo(t - MsPerDay, off, n - 1),
                [date |-> StartOfDayLocal(t, off), balance |-> 400 + 10 * n])

\* The process runs in UTC or in the cron's zone; the collection holds the
\* snapshots of the last 0, 1 or 2 days and the three cache documents.  A
\* percentage-change request (p1) and a dashboard request (p2) contend; store
\* operations may fail.
InitChange ==
    /\ InitCommon
    /\ probe = NoProbe
    /\ now = SnapT0
    /\ tzOffset \in {0, CronZoneOffset}
    /\ accountsOf = [o \in {"o1"} |-> <<[number |-> "a1", type |-> "TFSA"]>>]
    /\ equity = [a \in {"a1"} |-> SnapEquity]
    /\ positionsOf = [a \in {"a1"} |-> <<>>]
    /\ quoteOf = <<>> /\ detailOf = <<>>
    /\ ratesOffered = {135} /\ lifetimesOffered = {}
    /\ failingKinds = {"store"}
    /\ \E n \in 0..2 :
          /\ dailyBalances = SnapshotsUpTo(SnapT0, tzOffset, n)
          /\ lastWrite = [i \in 1..n |-> SnapT0 - (n - i) * MsPerDay - MsPerMinute]
    /\ caches = StoredCaches({1, 2, 3}, 1)
    /\ auths = <<Credential(1, SnapT0 + MsPerDay)>>

NextChange ==
    \/ StartPercentageChange("p1")
    \/ StartDashboard("p2")
    \/ \E p \in Procs : GetLatestBalance(p)
    \/ \E p \in Procs : GetYesterdayBalance(p)
    \/ \E p \in Procs : GetHistoricalData(p)
    \/ \E p \in Procs : HandlePercentageChangeLatest(p)
    \/ \E p \in Procs : HandlePercentageChangeYesterday(p)
    \/ \E p \in Procs : HandlePercentageChangeCatch(p)
    \/ \E p \in Procs : DashboardLatest(p)
    \/ \E p \in Procs : DashboardYesterday(p)
    \/ \E p \in Procs : DashboardHistory(p)
    \/ \E p \in Procs : \E k \in 1..3 : DashboardRead(p, k)
    \/ \E p \in Procs : DashboardCatch(p)
    \/ \E p \in Procs : StoreFailed(p)

SpecChange == InitChange /\ [][NextChange]_vars

\* ---- properties of the percentage change (SpecChange) ----

\* the zero the handler is to fall back to
ZeroRatio == [kind |-> "number", num |-> 0, den |-> 1]

\* C20: the percentage-change request answers 200 with latest / yesterday
\* when getYesterdayBalance found a snapshot with a balance other than 0, and
\* with zero when it found no snapshot or the balance 0; it never answers with
\* NaN or an infinity.
C20_RatioOrZeroFallback ==
    [][\A p \in Procs :
          At(p, "hpc_yesterday") /\ pc'[p] = <<"done">> =>
             /\ result'[p].status = "200"
             /\ result'[p].body =
                   IF returned[p] # <<>> /\ returned[p][1] # 0
                   THEN [kind |-> "number", num |-> balance[p], den |-> returned[p][1]]
                   ELSE ZeroRatio
      ]_vars
\* ------------------------------------- the dashboard's change percentage ----
\* balances in cents: the latest balances and the balances of yesterday that
\* changePercent is applied to on its own (125000 and 123500 dollars of the
\* tests in thousands; 32 makes halves of a hundredth; 0 and negative
\* balances of yesterday)
ProbeLatest == {0, 1, 31, 33, 1200, 1250}
ProbeYesterday == {-1250, -1, 0, 1, 3, 32, 1235, 1250}

\* the balances of the stored snapshots of yesterday and of today
StoredYesterday == {3, 32, 1235, 1250}
StoredToday == {1, 33, 1200, 1250}

\* changePercent is applied to the operands
ApplyChangePercent ==
    /\ probe # NoProbe
    /\ probe.out = <<>>
    /\ probe' = [probe EXCEPT !.out = <<ChangePercent(probe.latest, probe.yesterday)>>]
    /\ UNCHANGED <<now, tzOffset, accountsOf, equity, positionsOf, quoteOf, detailOf,
                   ratesOffered, lifetimesOffered, failingKinds, lastFire, storeVars,
                   upstreamVars, limiterVars, awaiting, pc, histVars, balanceVars,
                   authVars, cacheVars, result, dash>>

\* The process runs in UTC or in the cron's zone.  The collection holds no
\* snapshot, the one of today, or the ones of yesterday and of today, each
\* dated at the start of the local day, and the three cache documents.  One
\* dashboard request is served; changePercent is also applied on its own to
\* a latest balance and to what getYesterdayBalance may return (<<>>:
\* undefined).
InitPercent ==
    /\ InitCommon
    /\ now = SnapT0
    /\ tzOffset \in {0, CronZoneOffset}
    /\ accountsOf = [o \in {"o1"} |-> <<[number |-> "a1", type |-> "TFSA"]>>]
    /\ equity = [a \in {"a1"} |-> SnapEquity]
    /\ positionsOf = [a \in {"a1"} |-> <<>>]
    /\ quoteOf = <<>> /\ detailOf = <<>>
    /\ ratesOffered = {135} /\ lifetimesOffered = {}
    /\ failingKinds = {}
    /\ \E y \in StoredYesterday, l \in StoredToday :
          LET yesterday == [date |-> StartOfDayLocal(SnapT0 - MsPerDay, tzOffset),
                            balance |-> y]
              today == [date |-> StartOfDayLocal(SnapT0, tzOffset), balance |-> l]
          IN \/ dailyBalances = <<>> /\ lastWrite = <<>>
             \/ dailyBalances = <<today>> /\ lastWrite = <<SnapT0 - MsPerMinute>>
             \/ /\ dailyBalances = <<yesterday, today>>
                /\ lastWrite = <<SnapT0 - MsPerDay - MsPerMinute, SnapT0 - MsPerMinute>>
    /\ caches = StoredCaches({1, 2, 3}, 1)
    /\ auths = <<Credential(1, SnapT0 + MsPerDay)>>
    /\ \E l \in ProbeLatest, y \in {<<>>} \cup {<<b>> : b \in ProbeYesterday} :
          probe = [latest |-> l, yesterday |-> y, out |-> <<>>]

NextPercent ==
    \/ StartDashboard("p1")
    \/ GetLatestBalance("p1")
    \/ GetYesterdayBalance("p1")
    \/ GetHistoricalData("p1")
    \/ DashboardLatest("p1")
    \/ DashboardYesterday("p1")
    \/ DashboardHistory("p1")
    \/ \E k \in 1..3 : DashboardRead("p1", k)
    \/ ApplyChangePercent

SpecPercent == InitPercent /\ [][NextPercent]_vars

\* ---- properties of the change percentage (SpecPercent) ----

\* r, in hundredths of a percent, is ((latest - yesterday) / yesterday) x 100
\* rounded to two decimals: no hundredth is nearer to the quotient
NearestHundredth(r, latest, yesterday) ==
    LET off == r * yesterday - 10000 * (latest - yesterday) IN
    2 * (IF off < 0 THEN 0 - off ELSE off) <= yesterday

\* r is the change percentage the dashboard is to show for a latest balance
\* and what was found for yesterday (<<>>: no snapshot)
IsChangePercent(r, latest, yesterday) ==
    IF yesterday # <<>> /\ yesterday[1] > 0
    THEN NearestHundredth(r, latest, yesterday[1])
    ELSE r = 0

\* C21: the changePercent the dashboard computes, and the one it answers
\* with, is ((latest - yesterday) / yesterday) x 100 rounded to two decimals
\* when getYesterdayBalance found a snapshot with a balance above 0, and
\* exactly 0 when it found none or a balance of 0 or less; so is
\* changePercent applied on its own to any latest balance and any balance of
\* yesterday (balances in cents, percentages in hundredths).
C21_ChangePercentRounded ==
    [][/\ \A p \in Procs :
             /\ At(p, "dash_yesterday") /\ pc'[p] # pc[p] =>
                   IsChangePercent(dash'[p].changePercent, dash[p].latest, returned[p])
             /\ result'[p].status = "200" /\ result[p].status # "200" =>
                   /\ result'[p].body.totalPortfolio.changePercent = dash[p].changePercent
                   /\ result'[p].body.totalPortfolio.amount = dash[p].latest
       /\ probe'.out # <<>> =>
             IsChangePercent(probe'.out[1], probe.latest, probe.yesterday)
      ]_vars

\* the dashboard has answered with a change that is not zero, and
\* changePercent has been applied to a latest balance and a balance of
\* yesterday that is not above 0
C21_Witness ==
    /\ result["p1"].status = "200"
    /\ result["p1"].body.totalPortfolio.changePercent # 0
    /\ probe.out # <<>>
    /\ probe.yesterday # <<>>
    /\ probe.yesterday[1] <= 0
    /\ probe.latest > 0
\* ------------------------------------------ the snapshot from day to day ----
\* how far the clock moves in one step, and for how long
DayTick == 6 * MsPerHour
MaxDayTicks == 6
DayMaxNow == SnapT0 + MaxDayTicks * DayTick

\* the total equity of the account after the market has moved
MovedEquity == 620

\* the market moves between two operations: the brokerage reports another
\* total equity from now on
EquityMoves ==
    /\ pc["p1"] = <<"done">> /\ pc["p2"] = <<"idle">>
    /\ equity["a1"] = SnapEquity
    /\ equity' = [equity EXCEPT !["a1"] = MovedEquity]
    /\ UNCHANGED <<now, tzOffset, accountsOf, positionsOf, quoteOf, detailOf, ratesOffered,
                   lifetimesOffered, failingKinds, probe, lastFire, storeVars,
                   upstreamVars, limiterVars, awaiting, pc, histVars, balanceVars,
                   authVars, cacheVars, result, dash>>

\* One owner with a credential that stays valid, one account without
\* positions.  The process runs in UTC or in the cron's zone; its collection
\* holds no snapshot, or the one it wrote the day before.  A first operation
\* (p1: a scheduled run or GET /investments/balance) is followed, once it has
\* ended, by a second one (p2: a scheduled run, GET /investments/balance or
\* GET /investments/balance/percentage-change), up to a day and a half later;
\* the hours pass between the operations.
InitDays ==
    /\ InitCommon
    /\ probe = NoProbe
    /\ now = SnapT0
    /\ tzOffset \in {0, CronZoneOffset}
    /\ accountsOf = [o \in {"o1"} |-> <<[number |-> "a1", type |-> "TFSA"]>>]
    /\ equity = [a \in {"a1"} |-> SnapEquity]
    /\ positionsOf = [a \in {"a1"} |-> <<>>]
    /\ quoteOf = <<>> /\ detailOf = <<>>
    /\ ratesOffered = {135} /\ lifetimesOffered = {} /\ failingKinds = {}
    /\ \E n \in 0..1 :
          /\ dailyBalances = SnapshotsUpTo(SnapT0 - MsPerDay, tzOffset, n)
          /\ lastWrite = [i \in 1..n |-> SnapT0 - MsPerDay]
    /\ caches = <<>>
    /\ auths = <<Credential(1, DayMaxNow + MsPerDay)>>

NextDays ==
    \/ CronFire("p1")
    \/ StartGetBalance("p1")
    \/ pc["p1"] = <<"done">> /\ CronFire("p2")
    \/ pc["p1"] = <<"done">> /\ StartGetBalance("p2")
    \/ pc["p1"] = <<"done">> /\ StartPercentageChange("p2")
    \/ EquityMoves
    \/ \E p \in Procs : GetAuthsFind(p)
    \/ \E p \in Procs : FetchBalanceAuths(p)
    \/ \E p \in Procs : AccountNumbersOk(p)
    \/ \E p \in Procs : AggregateBalanceOk(p)
    \/ \E p \in Procs : FetchBalanceTotal(p)
    \/ \E p \in Procs : UpdateDailyBalanceFind(p)
    \/ \E p \in Procs : UpdateDailyBalanceWrite(p)
    \/ \E p \in Procs : FetchBalanceUpdated(p)
    \/ \E p \in Procs : UpdateAccountsCacheAuths(p)
    \/ \E p \in Procs : UpdateAccountsCacheAccounts(p)
    \/ \E p \in Procs : UpdateAccountsCacheBalance(p)
    \/ \E p \in Procs : UpdateAccountsCacheWrite(p)
    \/ \E p \in Procs : FetchBalanceAccounts(p)
    \/ \E p \in Procs : UpdateSymbolsCacheAuths(p)
    \/ \E p \in Procs : UpdateSymbolsCacheAccounts(p)
    \/ \E p \in Procs : UpdateSymbolsCachePositions(p)
    \/ \E p \in Procs : UpdateSymbolsCacheWrite(p)
    \/ \E p \in Procs : FetchBalanceSymbols(p)
    \/ \E p \in Procs : ExchangeRateOk(p)
    \/ \E p \in Procs : UpdateExchangeRateCacheWrite(p)
    \/ \E p \in Procs : FetchBalanceExchange(p)
    \/ \E p \in Procs : GetTodayBalance(p)
    \/ \E p \in Procs : HandleGetBalanceToday(p)
    \/ \E p \in Procs : HandleGetBalanceUpdated(p)
    \/ \E p \in Procs : GetLatestBalance(p)
    \/ \E p \in Procs : HandleGetBalanceLatest(p)
    \/ \E p \in Procs : GetYesterdayBalance(p)
    \/ \E p \in Procs : HandlePercentageChangeLatest(p)
    \/ \E p \in Procs : HandlePercentageChangeYesterday(p)
    \/ Dispatch("limiter")
    \/ (\A p \in Procs : pc[p] \in {<<"idle">>, <<"done">>}) /\ Tick(DayTick, DayMaxNow)

SpecDays == InitDays /\ [][NextDays]_vars
\* ---- properties of the snapshot from day to day (SpecDays) ----

\* the snapshots last written on the UTC calendar day of t
WrittenOnDay(t) ==
    {i \in 1..Len(dailyBalances) : StartOfDayUtc(lastWrite[i]) = StartOfDayUtc(t)}

\* C22 as stated: every snapshot that is written is dated at the start of the
\* UTC day of the write; getTodayBalance finds the snapshot written on the
\* same calendar day, and getYesterdayBalance the one written on the calendar
\* day before, whatever the zone of the process and the hour of the calls.
C22_SnapshotKeyedByUtcDay ==
    [][\A p \in Procs :
          /\ At(p, "udb_write") /\ pc'[p] # pc[p] =>
                \A i \in 1..Len(dailyBalances') :
                    lastWrite'[i] = now => dailyBalances'[i].date = StartOfDayUtc(now)
          /\ At(p, "gtb_findOne") /\ pc'[p] # pc[p] =>
                \A i \in WrittenOnDay(now) : returned'[p] = <<dailyBalances[i].balance>>
          /\ At(p, "gyb_findOne") /\ pc'[p] # pc[p] =>
                \A i \in WrittenOnDay(now - MsPerDay) :
                    returned'[p] = <<dailyBalances[i].balance>>
      ]_vars

\* q has called updateDailyBalance and the call has returned
HasUpdated(q) == Places(q, "updateDailyBalance") # {} /\ pc[q] = <<"done">>

\* C23: when updateDailyBalance has been called and has returned, and is
\* called again on the same day, the second call's write leaves exactly one
\* snapshot of that day, with the second call's balance, and leaves the
\* snapshots of every other date as they were.
C23_SecondCallReplaces ==
    [][\A p, q \in Procs :
          /\ At(p, "udb_write") /\ pc'[p] # pc[p]
          /\ q # p /\ HasUpdated(q) /\ todayDate[q] = todayDate[p]
          => /\ \E i \in 1..Len(dailyBalances') :
                   /\ dailyBalances'[i] = [date |-> todayDate[p], balance |-> balance[p]]
                   /\ \A j \in 1..Len(dailyBalances') :
                          dailyBalances'[j].date = todayDate[p] => j = i
             /\ Len(dailyBalances') = Len(dailyBalances)
             /\ \A j \in 1..Len(dailyBalances) :
                   dailyBalances[j].date # todayDate[p] =>
                      dailyBalances'[j] = dailyBalances[j]
      ]_vars

\* two scheduled runs of the same day have stored different totals one after
\* the other, next to the snapshot of the day before
C23_Witness ==
    /\ HasUpdated("p1") /\ HasUpdated("p2")
    /\ todayDate["p1"] = todayDate["p2"]
    /\ balance["p1"] = SnapEquity /\ balance["p2"] = MovedEquity
    /\ Len(dailyBalances) = 2
    /\ dailyBalances[2] = [date |-> todayDate["p2"], balance |-> MovedEquity]

\* the snapshots of today, by the key the process gives them, that were last
\* written within 15 minutes
FreshToday ==
    {i \in 1..Len(dailyBalances) :
        /\ dailyBalances[i].date = StartOfDayLocal(now, tzOffset)
        /\ now - lastWrite[i] <= 15 * MsPerMinute}

\* the balance of the most recent snapshot, 0 when there is none
MostRecentBalance ==
    IF LatestIdx = {} THEN {0} ELSE {dailyBalances[i].balance : i \in LatestIdx}

\* C24 as stated: GET /investments/balance answers with the balance of
\* today's snapshot when that snapshot is fresh and otherwise with the
\* balance of the most recent snapshot (0 when there is none), and when
\* getTodayBalance has returned and there is no fresh snapshot of today the
\* request goes on to write today's snapshot.
C24_FreshOrLatestAndUpdates ==
    [][\A p \in Procs :
          /\ At(p, "hgb_today") /\ pc'[p] # pc[p] =>
                IF FreshToday # {}
                THEN \A i \in FreshToday : returned[p] = <<dailyBalances[i].balance>>
                ELSE Head(pc'[p]) = "udb_findOne"
          /\ Runs(p, "handleGetBalance") /\ pc'[p] = <<"done">> /\ pc[p] # <<"done">> =>
                /\ result'[p].body.success
                /\ result'[p].body.balance \in MostRecentBalance
      ]_vars
\* ------------------------------------------------- the symbols of a day ----
\* what the brokerage may list as the positions of one account: nothing, an
\* open position, a closed one before an open one, the same symbol under
\* another ticker, a closed position alone, a symbol listed twice
PositionLists ==
    {<<>>,
     <<[symbolId |-> 1, symbol |-> "XEQT", openQuantity |-> 2]>>,
     <<[symbolId |-> 1, symbol |-> "XEQT", openQuantity |-> 0],
       [symbolId |-> 2, symbol |-> "VFV", openQuantity |-> 3]>>,
     <<[symbolId |-> 2, symbol |-> "VFV", openQuantity |-> 1],
       [symbolId |-> 1, symbol |-> "XEQT.TO", openQuantity |-> 5]>>,
     <<[symbolId |-> 3, symbol |-> "ZAG", openQuantity |-> 0]>>,
     <<[symbolId |-> 3, symbol |-> "ZAG", openQuantity |-> 4],
       [symbolId |-> 3, symbol |-> "ZAG", openQuantity |-> 1]>>}

\* the tickers and descriptions the brokerage knows the symbol ids by
Tickers == <<"XEQT", "VFV", "ZAG">>
Descriptions == <<"equity etf", "s&p 500 etf", "bond etf">>

\* prices in cents: last trade prices, open prices and previous closes
\* (<<>>: null) the brokerage may quote for a symbol
LastPrices == {2950, 3050, 12050}
OpenPrices == {0, 3000, 11900}
PrevCloses == {<<>>, <<0>>, <<2990>>, <<3200>>}

\* Two owners with valid credentials, the first with two accounts and the
\* second with one; the accounts and exchange-rate caches are stored and the
\* symbols cache is not, so that the one dashboard request calls
\* updateSymbolsCache.  Either the positions of the three accounts vary and
\* the prices are fixed, or one account holds one symbol whose prices vary.
\* Position, quote and symbol-detail calls may fail.
InitSymbols ==
    /\ InitCommon
    /\ probe = NoProbe
    /\ now = SnapT0
    /\ tzOffset = CronZoneOffset
    /\ accountsOf = [o \in {"o1", "o2"} |->
                        IF o = "o1" THEN <<[number |-> "a1", type |-> "TFSA"],
                                           [number |-> "a2", type |-> "RRSP"]>>
                        ELSE <<[number |-> "a3", type |-> "Cash"]>>]
    /\ equity = [a \in {"a1", "a2", "a3"} |-> SnapEquity]
    /\ \/ /\ positionsOf \in [{"a1", "a2", "a3"} -> PositionLists]
          /\ quoteOf = [s \in 1..3 |-> [symbolId |-> s, symbol |-> Tickers[s],
                                        lastTradePrice |-> 3050, openPrice |-> 3000]]
          /\ detailOf = [s \in 1..3 |-> [symbolId |-> s, description |-> Descriptions[s],
                                         prevDayClosePrice |-> <<2990>>]]
       \/ /\ positionsOf = [a \in {"a1", "a2", "a3"} |->
                               IF a = "a2"
                               THEN <<[symbolId |-> 1, symbol |-> "XEQT", openQuantity |-> 2]>>
                               ELSE <<>>]
          /\ \E last \in LastPrices, open \in OpenPrices, close \in PrevCloses :
                /\ quoteOf = [s \in 1..3 |-> [symbolId |-> s, symbol |-> Tickers[s],
                                              lastTradePrice |-> last, openPrice |-> open]]
                /\ detailOf = [s \in 1..3 |-> [symbolId |-> s, description |-> Descriptions[s],
                                               prevDayClosePrice |-> close]]
    /\ ratesOffered = {135} /\ lifetimesOffered = {}
    /\ failingKinds = {"positions", "quotes", "symbols"}
    /\ dailyBalances = <<[date |-> StartOfDayLocal(SnapT0 - MsPerDay, CronZoneOffset),
                          balance |-> 400]>>
    /\ lastWrite = <<SnapT0 - MsPerDay>>
    /\ caches = StoredCaches({1, 3}, 1)
    /\ auths = <<Credential(1, SnapT0 + MsPerDay), Credential(2, SnapT0 + MsPerDay)>>

NextSymbols ==
    \/ StartDashboard("p1")
    \/ GetLatestBalance("p1")
    \/ DashboardLatest("p1")
    \/ GetYesterdayBalance("p1")
    \/ DashboardYesterday("p1")
    \/ GetHistoricalData("p1")
    \/ DashboardHistory("p1")
    \/ \E k \in 1..3 : DashboardRead("p1", k)
    \/ \E k \in 1..3 : DashboardAfterUpdate("p1", k)
    \/ \E k \in 1..3 : DashboardReadAgain("p1", k)
    \/ GetAuthsFind("p1")
    \/ CallFailed("p1")
    \/ \E l \in Limiters : CompleteDropped(l)
    \/ UpdateSymbolsCacheAuths("p1")
    \/ UpdateSymbolsCacheAccounts("p1")
    \/ UpdateSymbolsCachePositions("p1")
    \/ UpdateSymbolsCacheFresh("p1")
    \/ UpdateSymbolsCacheMarket("p1")
    \/ UpdateSymbolsCacheWrite("p1")
    \/ \E l \in Limiters : Dispatch(l)

SpecSymbols == InitSymbols /\ [][NextSymbols]_vars
\* ---- properties of the symbols cache (SpecSymbols) ----

\* the concatenation of the sequences of a sequence
RECURSIVE Flat(_)
Flat(ss) == IF ss = <<>> THEN <<>> ELSE Head(ss) \o Flat(Tail(ss))

\* every position the brokerage lists, owner by owner in the order of the
\* stored credentials and account by account
AllPositions ==
    Flat([i \in 1..Len(auths) |->
             Flat([k \in 1..Len(accountsOf[auths[i].owner]) |->
                      positionsOf[accountsOf[auths[i].owner][k].number]])])

\* the places of the open positions of symbol id s, and the ids that have one
OpenPlaces(s) ==
    {i \in 1..Len(AllPositions) :
        AllPositions[i].symbolId = s /\ AllPositions[i].openQuantity > 0}
OpenIds == {s \in 1..3 : OpenPlaces(s) # {}}

\* the symbols documents of the collection c
SymbolsDocs(c) == {i \in 1..Len(c) : c[i].type = "symbols"}

\* p's step that completes the write of the symbols cache
SymbolsWriteStep(p) == At(p, "usc_updateOne") /\ pc'[p] # pc[p]

\* C27: when updateSymbolsCache has written the cache, the one symbols
\* document holds exactly one entry for every symbol id with an open position
\* (quantity above 0) in some account of some owner, in the order in which
\* the ids first occur, and none for any other id; the Map the updater built
\* keeps for each id the ticker of its first open position.
C27_OneEntryPerOpenSymbol ==
    [][\A p \in Procs :
          SymbolsWriteStep(p) =>
             /\ Cardinality(SymbolsDocs(caches')) = 1
             /\ \A d \in SymbolsDocs(caches') :
                   LET entries == caches'[d].symbols IN
                   /\ \A s \in OpenIds :
                         Cardinality({j \in 1..Len(entries) : entries[j].symbolId = s}) = 1
                   /\ \A j \in 1..Len(entries) : entries[j].symbolId \in OpenIds
                   /\ \A j, k \in 1..Len(entries) :
                         j < k => Min(OpenPlaces(entries[j].symbolId))
                                     < Min(OpenPlaces(entries[k].symbolId))
                   /\ Len(symbolMap[p]) = Len(entries)
                   /\ \A j \in 1..Len(entries) :
                         /\ symbolMap[p][j].symbolId = entries[j].symbolId
                         /\ symbolMap[p][j].symbol =
                               AllPositions[Min(OpenPlaces(entries[j].symbolId))].symbol
      ]_vars

\* the symbols cache holds symbol 2 and then symbol 1, which both owners hold
\* in several accounts, and nothing for symbol 3, whose only position is
\* closed
C27_Witness ==
    /\ positionsOf["a1"] = <<[symbolId |-> 2, symbol |-> "VFV", openQuantity |-> 1],
                             [symbolId |-> 1, symbol |-> "XEQT.TO", openQuantity |-> 5]>>
    /\ positionsOf["a2"] = <<[symbolId |-> 1, symbol |-> "XEQT", openQuantity |-> 0],
                             [symbolId |-> 2, symbol |-> "VFV", openQuantity |-> 3]>>
    /\ positionsOf["a3"] = <<[symbolId |-> 3, symbol |-> "ZAG", openQuantity |-> 0]>>
    /\ \E d \in SymbolsDocs(caches) :
          /\ Len(caches[d].symbols) = 2
          /\ caches[d].symbols[1].symbolId = 2
          /\ caches[d].symbols[2].symbolId = 1
    /\ symbolMap["p1"][2].symbol = "XEQT.TO"

\* C28: every entry updateSymbolsCache stores for a quote carries the change
\* of the last trade price from the base price, in percent rounded to two
\* decimals, where the base price is the previous close of the symbol's
\* details when there is one (not null) and the quote's open price
\* otherwise; the change is exactly 0 when the base price is 0 or less.
C28_DayChangeFromBasePrice ==
    [][\A p \in Procs :
          SymbolsWriteStep(p) =>
             \A d \in SymbolsDocs(caches') :
                /\ Len(caches'[d].symbols) = Len(market[p].quotes)
                /\ \A j \in 1..Len(market[p].quotes) :
                      LET quote == market[p].quotes[j]
                          close == detailOf[quote.symbolId].prevDayClosePrice
                          base == IF close # <<>> THEN close[1] ELSE quote.openPrice
                          r == caches'[d].symbols[j].dayChangePercent
                      IN /\ caches'[d].symbols[j].symbolId = quote.symbolId
                         /\ IF base > 0
                            THEN NearestHundredth(r, quote.lastTradePrice, base)
                            ELSE r = 0
      ]_vars

\* the cache holds the change of 1.26 percent of a quote that has no previous
\* close: 120.50 from the open price 119.00
C28_Witness ==
    /\ quoteOf[1].lastTradePrice = 12050 /\ quoteOf[1].openPrice = 11900
    /\ detailOf[1].prevDayClosePrice = <<>>
    /\ \E d \in SymbolsDocs(caches) :
          /\ Len(caches[d].symbols) = 1
          /\ caches[d].symbols[1].dayChangePercent = 126
\* ------------------------------------------- the exchange rate, twice ----
\* how far the clock moves between two operations, and how often
RateTick == 5 * MsPerMinute
MaxRateTicks == 2
RateMaxNow == SnapT0 + MaxRateTicks * RateTick

\* No or one owner with a valid credential and one account without
\* positions; the accounts and symbols caches may be stored, the
\* exchange-rate cache is not.  A first operation (p1: a dashboard request
\* or a scheduled run) is followed, once it has ended, by a scheduled run
\* (p2); each calls updateExchangeRateCache once.  The service answers with
\* one of two rates.
InitRate ==
    /\ InitCommon
    /\ probe = NoProbe
    /\ now = SnapT0
    /\ tzOffset = CronZoneOffset
    /\ accountsOf = [o \in {"o1"} |-> <<[number |-> "a1", type |-> "TFSA"]>>]
    /\ equity = [a \in {"a1"} |-> SnapEquity]
    /\ positionsOf = [a \in {"a1"} |-> <<>>]
    /\ quoteOf = <<>> /\ detailOf = <<>>
    /\ ratesOffered = {135, 136} /\ lifetimesOffered = {} /\ failingKinds = {}
    /\ dailyBalances = <<>> /\ lastWrite = <<>>
    /\ caches \in {<<>>, StoredCaches({1, 2}, 1)}
    /\ \E n \in 0..1 : auths = SubSeq(<<Credential(1, RateMaxNow + MsPerDay)>>, 1, n)

NextRate ==
    \/ StartDashboard("p1")
    \/ CronFire("p1")
    \/ pc["p1"] = <<"done">> /\ CronFire("p2")
    \/ \E p \in Procs : GetLatestBalance(p)
    \/ \E p \in Procs : DashboardLatest(p)
    \/ \E p \in Procs : GetYesterdayBalance(p)
    \/ \E p \in Procs : DashboardYesterday(p)
    \/ \E p \in Procs : GetHistoricalData(p)
    \/ \E p \in Procs : DashboardHistory(p)
    \/ \E p \in Procs : \E k \in 1..3 : DashboardRead(p, k)
    \/ \E p \in Procs : \E k \in 1..3 : DashboardAfterUpdate(p, k)
    \/ \E p \in Procs : \E k \in 1..3 : DashboardReadAgain(p, k)
    \/ \E p \in Procs : GetAuthsFind(p)
    \/ \E p \in Procs : FetchBalanceAuths(p)
    \/ \E p \in Procs : AccountNumbersOk(p)
    \/ \E p \in Procs : AggregateBalanceOk(p)
    \/ \E p \in Procs : FetchBalanceTotal(p)
    \/ \E p \in Procs : UpdateDailyBalanceFind(p)
    \/ \E p \in Procs : UpdateDailyBalanceWrite(p)
    \/ \E p \in Procs : FetchBalanceUpdated(p)
    \/ \E p \in Procs : UpdateAccountsCacheAuths(p)
    \/ \E p \in Procs : UpdateAccountsCacheAccounts(p)
    \/ \E p \in Procs : UpdateAccountsCacheBalance(p)
    \/ \E p \in Procs : UpdateAccountsCacheWrite(p)
    \/ \E p \in Procs : FetchBalanceAccounts(p)
    \/ \E p \in Procs : UpdateSymbolsCacheAuths(p)
    \/ \E p \in Procs : UpdateSymbolsCacheAccounts(p)
    \/ \E p \in Procs : UpdateSymbolsCachePositions(p)
    \/ \E p \in Procs : UpdateSymbolsCacheWrite(p)
    \/ \E p \in Procs : FetchBalanceSymbols(p)
    \/ \E p \in Procs : ExchangeRateOk(p)
    \/ \E p \in Procs : UpdateExchangeRateCacheWrite(p)
    \/ \E p \in Procs : FetchBalanceExchange(p)
    \/ Dispatch("limiter")
    \/ (\A p \in Procs : pc[p] \in {<<"idle">>, <<"done">>}) /\ Tick(RateTick, RateMaxNow)

SpecRate == InitRate /\ [][NextRate]_vars

\* ---- properties of the exchange-rate cache (SpecRate) ----

\* the exchange-rate documents of the collection c
RateDocs(c) == {i \in 1..Len(c) : c[i].type = "exchange-rate"}

\* p's step completes the write of a second call of updateExchangeRateCache
\* that received the same rate as the first call, which q made before
SecondRateWrite(p, q) ==
    /\ At(p, "uerc_updateOne") /\ pc'[p] # pc[p]
    /\ q # p /\ pc[q] = <<"done">> /\ Places(q, "updateExchangeRateCache") # {}
    /\ usdToCad[q] = usdToCad[p]

\* C29 as stated: after the second of two calls in succession with the same
\* rate there is exactly one exchange-rate document, with that rate, and its
\* updatedAt is strictly greater than it was after the first call.
C29_UpdatedAtStrictlyGreater ==
    [][\A p, q \in Procs :
          SecondRateWrite(p, q) =>
             /\ Cardinality(RateDocs(caches)) = 1
             /\ Cardinality(RateDocs(caches')) = 1
             /\ \A i \in RateDocs(caches), j \in RateDocs(caches') :
                   /\ caches'[j].usdToCad = usdToCad[p]
                   /\ caches'[j].updatedAt > caches[i].updatedAt
      ]_vars

\* C29 amended: after the second of two calls in succession with the same
\* rate there is exactly one exchange-rate document, with that rate; its
\* updatedAt is the time at which the second call received the rate, which
\* is not less than the updatedAt left by the first call and is greater
\* exactly when the clock advanced between the two.
C29_UpdatedAtNotLess ==
    [][\A p, q \in Procs :
          SecondRateWrite(p, q) =>
             /\ Cardinality(RateDocs(caches)) = 1
             /\ Cardinality(RateDocs(caches')) = 1
             /\ \A i \in RateDocs(caches), j \in RateDocs(caches') :
                   /\ caches'[j].usdToCad = usdToCad[p]
                   /\ caches[i].updatedAt = stamp[q]
                   /\ caches'[j].updatedAt = stamp[p]
                   /\ caches'[j].updatedAt >= caches[i].updatedAt
                   /\ stamp[p] <= now
      ]_vars

\* two calls in succession have stored the same rate, the second one five
\* minutes after the first
C29_Witness ==
    /\ pc["p1"] = <<"done">> /\ pc["p2"] = <<"done">>
    /\ usdToCad["p1"] = 135 /\ usdToCad["p2"] = 135
    /\ stamp["p2"] > stamp["p1"]
    /\ Cardinality(RateDocs(caches)) = 1
    /\ \A i \in RateDocs(caches) : caches[i].updatedAt = stamp["p2"]
\* ------------------------------------- the cache documents, contended ----
\* No or one owner with a valid credential and one account without
\* positions; none, one or all of the cache documents are stored.  A
\* scheduled run or a dashboard request (p1) and a dashboard request (p2)
\* run at the same time; no call and no store operation fails.
InitSingletons ==
    /\ InitCommon
    /\ probe = NoProbe
    /\ now = SnapT0
    /\ tzOffset = CronZoneOffset
    /\ accountsOf = [o \in {"o1"} |-> <<[number |-> "a1", type |-> "TFSA"]>>]
    /\ equity = [a \in {"a1"} |-> SnapEquity]
    /\ positionsOf = [a \in {"a1"} |-> <<>>]
    /\ quoteOf = <<>> /\ detailOf = <<>>
    /\ ratesOffered = {135} /\ lifetimesOffered = {} /\ failingKinds = {}
    /\ dailyBalances = <<>> /\ lastWrite = <<>>
    /\ caches \in {<<>>, StoredCaches({1}, 1), StoredCaches({1, 2, 3}, 1)}
    /\ \E n \in 0..1 : auths = SubSeq(<<Credential(1, SnapT0 + MsPerDay)>>, 1, n)

NextSingletons ==
    \/ CronFire("p1")
    \/ \E p \in Procs : StartDashboard(p)
    \/ \E p \in Procs : GetLatestBalance(p)
    \/ \E p \in Procs : DashboardLatest(p)
    \/ \E p \in Procs : GetYesterdayBalance(p)
    \/ \E p \in Procs : DashboardYesterday(p)
    \/ \E p \in Procs : GetHistoricalData(p)
    \/ \E p \in Procs : DashboardHistory(p)
    \/ \E p \in Procs : \E k \in 1..3 : DashboardRead(p, k)
    \/ \E p \in Procs : \E k \in 1..3 : DashboardAfterUpdate(p, k)
    \/ \E p \in Procs : \E k \in 1..3 : DashboardReadAgain(p, k)
    \/ \E p \in Procs : GetAuthsFind(p)
    \/ \E p \in Procs : FetchBalanceAuths(p)
    \/ \E p \in Procs : AccountNumbersOk(p)
    \/ \E p \in Procs : AggregateBalanceOk(p)
    \/ \E p \in Procs : FetchBalanceTotal(p)
    \/ \E p \in Procs : UpdateDailyBalanceFind(p)
    \/ \E p \in Procs : UpdateDailyBalanceWrite(p)
    \/ \E p \in Procs : FetchBalanceUpdated(p)
    \/ \E p \in Procs : UpdateAccountsCacheAuths(p)
    \/ \E p \in Procs : UpdateAccountsCacheAccounts(p)
    \/ \E p \in Procs : UpdateAccountsCacheBalance(p)
    \/ \E p \in Procs : UpdateAccountsCacheWrite(p)
    \/ \E p \in Procs : FetchBalanceAccounts(p)
    \/ \E p \in Procs : UpdateSymbolsCacheAuths(p)
    \/ \E p \in Procs : UpdateSymbolsCacheAccounts(p)
    \/ \E p \in Procs : UpdateSymbolsCachePositions(p)
    \/ \E p \in Procs : UpdateSymbolsCacheWrite(p)
    \/ \E p \in Procs : FetchBalanceSymbols(p)
    \/ \E p \in Procs : ExchangeRateOk(p)
    \/ \E p \in Procs : UpdateExchangeRateCacheWrite(p)
    \/ \E p \in Procs : FetchBalanceExchange(p)
    \/ Dispatch("limiter")

SpecSingletons == InitSingletons /\ [][NextSingletons]_vars

\* ---- properties of the cache documents (SpecSingletons) ----

\* the label at which p waits for the upsert of the document of type
\* CacheTypes[k], and the document p sent
WriteLabel == <<"uac_updateOne", "usc_updateOne", "uerc_updateOne">>
SentDocument(p, k) ==
    IF k = 1
    THEN [type |-> "accounts", accounts |-> accountBalances[p], updatedAt |-> stamp[p]]
    ELSE IF k = 2
    THEN [type |-> "symbols",
          symbols |-> [i \in 1..Len(market[p].quotes) |->
                          Performance(market[p].quotes[i], market[p].details)],
          updatedAt |-> stamp[p]]
    ELSE [type |-> "exchange-rate", usdToCad |-> usdToCad[p], updatedAt |-> stamp[p]]

\* the documents of type t in the collection c
OfType(c, t) == {i \in 1..Len(c) : c[i].type = t}

\* p's step completes its upsert of the document of type CacheTypes[k]
CacheWriteStep(p, k) == At(p, WriteLabel[k]) /\ pc'[p] # pc[p]

\* C30 as stated: in every reachable state each of the three type tags
\* (accounts, symbols, exchange-rate) is carried by at most one document of
\* the collection; and each completed write leaves, under its type tag,
\* nothing but the document the updater built: the whole payload is the new
\* one and updatedAt is the time the updater took when it issued the write.
C30_AtMostOnePerType ==
    /\ [](\A k \in 1..3 : Cardinality(MatchType(CacheTypes[k])) <= 1)
    /\ [][\A p \in Procs : \A k \in 1..3 :
            CacheWriteStep(p, k) =>
                /\ stamp[p] <= now
                /\ \A i \in OfType(caches', CacheTypes[k]) :
                       caches'[i] = SentDocument(p, k)]_vars
\* ------------------------------------- reading the snapshots' history ----
\* the days before today on which the stored snapshots were written, in the
\* order in which the collection holds them
SnapshotDays == {<<>>, <<0>>, <<2, 0, 1>>, <<3, 1>>, <<1, 3, 2>>, <<1, 1, 0>>, <<3, 2, 1, 0>>}

\* the numbers of days getHistoricalData is applied to on its own
ProbeDays == {0, 1, 2, HistoryDays}

\* getHistoricalData(days) is applied to the operand
ApplyGetHistoricalData ==
    /\ probe # NoProbe
    /\ probe.out = <<>>
    /\ probe' = [probe EXCEPT !.out = <<HistoricalData(probe.days, now, tzOffset)>>]
    /\ UNCHANGED <<now, tzOffset, accountsOf, equity, positionsOf, quoteOf, detailOf,
                   ratesOffered, lifetimesOffered, failingKinds, lastFire, storeVars,
                   upstreamVars, limiterVars, awaiting, pc, histVars, balanceVars,
                   authVars, cacheVars, result, dash>>

\* The process runs in UTC or in the cron's zone.  The collection holds the
\* snapshots of some of the last days, each dated at the start of the local
\* day, in any order; no or one credential, which stays valid; none or all
\* of the cache documents.  A dashboard request (p1) and a balance request
\* (p2) are served, and getHistoricalData is also applied on its own to a
\* number of days.
InitHistory ==
    /\ InitCommon
    /\ now = SnapT0
    /\ tzOffset \in {0, CronZoneOffset}
    /\ accountsOf = [o \in {"o1"} |-> <<[number |-> "a1", type |-> "TFSA"]>>]
    /\ equity = [a \in {"a1"} |-> SnapEquity]
    /\ positionsOf = [a \in {"a1"} |-> <<>>]
    /\ quoteOf = <<>> /\ detailOf = <<>>
    /\ ratesOffered = {135} /\ lifetimesOffered = {} /\ failingKinds = {}
    /\ \E days \in SnapshotDays :
          /\ dailyBalances = [i \in 1..Len(days) |->
                                 [date |-> StartOfDayLocal(SnapT0 - days[i] * MsPerDay, tzOffset),
                                  balance |-> 400 + 10 * i]]
          /\ lastWrite = [i \in 1..Len(days) |-> SnapT0 - days[i] * MsPerDay - MsPerMinute]
    /\ caches \in {<<>>, StoredCaches({1, 2, 3}, 1)}
    /\ \E n \in 0..1 : auths = SubSeq(<<Credential(1, SnapT0 + MsPerDay)>>, 1, n)
    /\ \E d \in ProbeDays : probe = [days |-> d, out |-> <<>>]

NextHistory ==
    \/ StartDashboard("p1")
    \/ StartGetBalance("p2")
    \/ \E p \in Procs : GetLatestBalance(p)
    \/ \E p \in Procs : DashboardLatest(p)
    \/ \E p \in Procs : GetYesterdayBalance(p)
    \/ \E p \in Procs : DashboardYesterday(p)
    \/ \E p \in Procs : GetHistoricalData(p)
    \/ \E p \in Procs : DashboardHistory(p)
    \/ \E p \in Procs : \E k \in 1..3 : DashboardRead(p, k)
    \/ \E p \in Procs : \E k \in 1..3 : DashboardAfterUpdate(p, k)
    \/ \E p \in Procs : \E k \in 1..3 : DashboardReadAgain(p, k)
    \/ \E p \in Procs : GetAuthsFind(p)
    \/ \E p \in Procs : UpdateAccountsCacheAuths(p)
    \/ \E p \in Procs : UpdateAccountsCacheAccounts(p)
    \/ \E p \in Procs : UpdateAccountsCacheBalance(p)
    \/ \E p \in Procs : UpdateAccountsCacheWrite(p)
    \/ \E p \in Procs : UpdateSymbolsCacheAuths(p)
    \/ \E p \in Procs : UpdateSymbolsCacheAccounts(p)
    \/ \E p \in Procs : UpdateSymbolsCachePositions(p)
    \/ \E p \in Procs : UpdateSymbolsCacheWrite(p)
    \/ \E p \in Procs : ExchangeRateOk(p)
    \/ \E p \in Procs : UpdateExchangeRateCacheWrite(p)
    \/ \E p \in Procs : GetTodayBalance(p)
    \/ \E p \in Procs : HandleGetBalanceToday(p)
    \/ \E p \in Procs : UpdateDailyBalanceFind(p)
    \/ \E p \in Procs : UpdateDailyBalanceWrite(p)
    \/ \E p \in Procs : HandleGetBalanceUpdated(p)
    \/ \E p \in Procs : HandleGetBalanceLatest(p)
    \/ Dispatch("limiter")
    \/ ApplyGetHistoricalData

SpecHistory == InitHistory /\ [][NextHistory]_vars

\* ---- properties of the reads of the snapshots (SpecHistory) ----

\* p's step completes the findOne of getLatestBalance
LatestBalanceStep(p) == At(p, "glb_findOne") /\ pc'[p] # pc[p]

\* C31: getLatestBalance returns the balance of a snapshot of the greatest
\* date, or 0 when the collection holds no snapshot, whatever credentials and
\* cache documents the collection holds besides.
C31_LatestBalanceOfGreatestDate ==
    [][\A p \in Procs :
          LatestBalanceStep(p) =>
              returned'[p] \in (IF dailyBalances = <<>> THEN {<<0>>}
                                ELSE {<<dailyBalances[i].balance>> : i \in LatestIdx})]_vars

\* the dashboard request has got the latest balance from a collection of
\* three snapshots, the first of which is not the latest, a credential and
\* the cache documents
C31_Witness ==
    /\ At("p1", "dash_latest")
    /\ auths # <<>> /\ caches # <<>>
    /\ Len(dailyBalances) = 3 /\ 1 \notin LatestIdx
    /\ \E i \in LatestIdx : returned["p1"] = <<dailyBalances[i].balance>>

\* the snapshots dated on or after the calendar day that lies days days
\* before today
WithinDays(days) ==
    {i \in 1..Len(dailyBalances) :
        FormatDay(dailyBalances[i].date, tzOffset) >= FormatDay(now, tzOffset) - days}

\* r holds one point per snapshot of the last days days and nothing else, in
\* ascending order of the snapshots' dates, each with the snapshot's day and
\* balance
IsHistory(r, days) ==
    /\ Len(r) = Cardinality(WithinDays(days))
    /\ \E f \in [1..Len(r) -> WithinDays(days)] :
          /\ \A k, l \in 1..Len(r) : k # l => f[k] # f[l]
          /\ \A k, l \in 1..Len(r) :
                k < l => dailyBalances[f[k]].date <= dailyBalances[f[l]].date
          /\ \A k \in 1..Len(r) :
                r[k] = [date |-> FormatDay(dailyBalances[f[k]].date, tzOffset),
                        value |-> dailyBalances[f[k]].balance]

\* p's step completes the find of getHistoricalData
HistoricalDataStep(p) == At(p, "ghd_find") /\ pc'[p] # pc[p]

\* C32: getHistoricalData(days) returns exactly the snapshots dated on or
\* after today - days, one point per snapshot, in ascending order of date,
\* each as { date: the snapshot's day, value: its balance }; no credential
\* and no cache document makes a point.
C32_HistoryIsTheSnapshotsSinceCutoff ==
    [][/\ \A p \in Procs : HistoricalDataStep(p) => IsHistory(returned'[p], HistoryDays)
       /\ (probe.out = <<>> /\ probe'.out # <<>>) =>
              IsHistory(probe'.out[1], probe.days)]_vars

\* getHistoricalData(1) was applied to a collection of three snapshots, the
\* oldest first and too old, a credential and the cache documents: the two
\* later ones came back, yesterday's before today's
C32_Witness ==
    /\ probe.days = 1 /\ probe.out # <<>>
    /\ auths # <<>> /\ caches # <<>>
    /\ Len(dailyBalances) = 3
    /\ dailyBalances[1].date < dailyBalances[3].date
    /\ dailyBalances[3].date < dailyBalances[2].date
    /\ Len(probe.out[1]) = 2
    /\ probe.out[1][1].value = dailyBalances[3].balance
    /\ probe.out[1][2].value = dailyBalances[2].balance
\* --------------------------------- the balance request's write-back ----
\* the balance of the snapshot of today that an earlier run stored
StoredBalance == 410

\* One owner with a valid credential and one account without positions,
\* whose equity has moved since today's snapshot was stored; the collection
\* holds that snapshot or none, and no cache.  A balance request (p1) and
\* the scheduled run (p2) contend; no call and no store operation fails.
InitWriteBack ==
    /\ InitCommon
    /\ probe = NoProbe
    /\ now = SnapT0
    /\ tzOffset = CronZoneOffset
    /\ accountsOf = [o \in {"o1"} |-> <<[number |-> "a1", type |-> "TFSA"]>>]
    /\ equity = [a \in {"a1"} |-> SnapEquity]
    /\ positionsOf = [a \in {"a1"} |-> <<>>]
    /\ quoteOf = <<>> /\ detailOf = <<>>
    /\ ratesOffered = {135} /\ lifetimesOffered = {} /\ failingKinds = {}
    /\ \E n \in 0..1 :
          /\ dailyBalances = [i \in 1..n |->
                                 [date |-> StartOfDayLocal(SnapT0, CronZoneOffset),
                                  balance |-> StoredBalance]]
          /\ lastWrite = [i \in 1..n |-> SnapT0 - CronEvery]
    /\ caches = <<>>
    /\ auths = <<Credential(1, SnapT0 + MsPerDay)>>

NextWriteBack ==
    \/ StartGetBalance("p1")
    \/ CronFire("p2")
    \/ \E p \in Procs : GetTodayBalance(p)
    \/ \E p \in Procs : HandleGetBalanceToday(p)
    \/ \E p \in Procs : HandleGetBalanceUpdated(p)
    \/ \E p \in Procs : GetLatestBalance(p)
    \/ \E p \in Procs : HandleGetBalanceLatest(p)
    \/ \E p \in Procs : GetAuthsFind(p)
    \/ \E p \in Procs : FetchBalanceAuths(p)
    \/ \E p \in Procs : AccountNumbersOk(p)
    \/ \E p \in Procs : AggregateBalanceOk(p)
    \/ \E p \in Procs : FetchBalanceTotal(p)
    \/ \E p \in Procs : UpdateDailyBalanceFind(p)
    \/ \E p \in Procs : UpdateDailyBalanceWrite(p)
    \/ \E p \in Procs : FetchBalanceUpdated(p)
    \/ \E p \in Procs : UpdateAccountsCacheAuths(p)
    \/ \E p \in Procs : UpdateAccountsCacheAccounts(p)
    \/ \E p \in Procs : UpdateAccountsCacheBalance(p)
    \/ \E p \in Procs : UpdateAccountsCacheWrite(p)
    \/ \E p \in Procs : FetchBalanceAccounts(p)
    \/ \E p \in Procs : UpdateSymbolsCacheAuths(p)
    \/ \E p \in Procs : UpdateSymbolsCacheAccounts(p)
    \/ \E p \in Procs : UpdateSymbolsCachePositions(p)
    \/ \E p \in Procs : UpdateSymbolsCacheWrite(p)
    \/ \E p \in Procs : FetchBalanceSymbols(p)
    \/ \E p \in Procs : ExchangeRateOk(p)
    \/ \E p \in Procs : UpdateExchangeRateCacheWrite(p)
    \/ \E p \in Procs : FetchBalanceExchange(p)
    \/ Dispatch("limiter")

SpecWriteBack == InitWriteBack /\ [][NextWriteBack]_vars

\* ---- properties of the write-back (SpecWriteBack) ----

\* p's step completes the write of the updateDailyBalance that
\* handleGetBalance called with the balance it had read
WriteBackStep(p) ==
    Runs(p, "handleGetBalance") /\ At(p, "udb_write") /\ pc'[p] # pc[p]

\* C36 as stated: the balance request does not put an older balance over a
\* newer one.  When its write-back completes and today's snapshot no longer
\* holds the balance X the handler had read, because the scheduled run has
\* stored Y since, the snapshot keeps Y.
C36_NewerBalanceNotOverwritten ==
    [][\A p \in Procs :
          WriteBackStep(p) =>
              \A i \in MatchDate(todayDate[p]) :
                  dailyBalances[i].balance # balance[p] =>
                      dailyBalances'[i].balance = dailyBalances[i].balance]_vars

\* ---- a cache updater that fails (SpecFetch) ----

\* p is inside a cache updater: one of the updater's frames is on its stack
InUpdater(p) == \E i \in 1..Len(pc[p]) : TryOf(pc[p][i]) = "updater"

\* the frames below the topmost updater frame: where the updater's caller
\* goes on once the updater has returned
RECURSIVE BelowUpdater(_)
BelowUpdater(stack) ==
    IF stack = <<>> THEN <<>>
    ELSE IF TryOf(Head(stack)) = "updater" THEN Tail(stack)
    ELSE BelowUpdater(Tail(stack))

\* the documents of the collection c whose type is not t, in their order
RECURSIVE NotOfType(_, _)
NotOfType(c, t) ==
    IF c = <<>> THEN <<>>
    ELSE IF Head(c).type = t THEN NotOfType(Tail(c), t)
    ELSE <<Head(c)>> \o NotOfType(Tail(c), t)

InitLive ==
    /\ InitCommon
    /\ probe = NoProbe
    /\ now = SnapT0
    /\ tzOffset = CronZoneOffset
    /\ accountsOf = [o \in {"o1"} |-> <<[number |-> "a1", type |-> "TFSA"]>>]
    /\ equity = [a \in {"a1"} |-> SnapEquity]
    /\ positionsOf = [a \in {"a1"} |->
                         <<[symbolId |-> 1, symbol |-> "XEQT", openQuantity |-> 2]>>]
    /\ quoteOf = <<[symbolId |-> 1, symbol |-> "XEQT", lastTradePrice |-> 3050,
                    openPrice |-> 3000]>>
    /\ detailOf = <<[symbolId |-> 1, description |-> "equity etf",
                     prevDayClosePrice |-> <<2990>>]>>
    /\ ratesOffered = {135} /\ lifetimesOffered = {}
    /\ failingKinds = {"balance", "quotes", "exchangeRate"}
    /\ dailyBalances = <<[date |-> StartOfDayLocal(SnapT0 - MsPerDay, CronZoneOffset),
                          balance |-> 400]>>
    /\ lastWrite = <<SnapT0 - MsPerDay>>
    /\ caches = StoredCaches({1, 3}, 1)
    /\ auths = <<Credential(1, SnapT0 + MsPerDay)>>

\* the cron job fires, a request arrives
ArrivalsLive ==
    \/ CronFire("p1")
    \/ StartDashboard("p2")
    \/ StartGetBalance("p2")
    \/ StartForceBalance("p2")

\* what the event loop does once an operation is under way: a store
\* operation or an upstream call completes, a continuation runs, a limiter
\* launches its next call
StepsLive ==
    \/ \E p \in Procs : GetAuthsFind(p)
    \/ \E p \in Procs : FetchBalanceAuths(p)
    \/ \E p \in Procs : HandleForceBalanceAuths(p)
    \/ \E p \in Procs : AccountNumbersOk(p)
    \/ \E p \in Procs : AggregateBalanceOk(p)
    \/ \E p \in Procs : CallFailed(p)
    \/ \E l \in Limiters : CompleteDropped(l)
    \/ \E p \in Procs : HandleForceBalanceTotal(p)
    \/ \E p \in Procs : HandleForceBalanceCatch(p)
    \/ \E p \in Procs : FetchBalanceTotal(p)
    \/ \E p \in Procs : UpdateDailyBalanceFind(p)
    \/ \E p \in Procs : UpdateDailyBalanceWrite(p)
    \/ \E p \in Procs : FetchBalanceUpdated(p)
    \/ \E p \in Procs : UpdateAccountsCacheAuths(p)
    \/ \E p \in Procs : UpdateAccountsCacheAccounts(p)
    \/ \E p \in Procs : UpdateAccountsCacheBalance(p)
    \/ \E p \in Procs : UpdateAccountsCacheWrite(p)
    \/ \E p \in Procs : FetchBalanceAccounts(p)
    \/ \E p \in Procs : UpdateSymbolsCacheAuths(p)
    \/ \E p \in Procs : UpdateSymbolsCacheAccounts(p)
    \/ \E p \in Procs : UpdateSymbolsCachePositions(p)
    \/ \E p \in Procs : UpdateSymbolsCacheFresh(p)
    \/ \E p \in Procs : UpdateSymbolsCacheMarket(p)
    \/ \E p \in Procs : UpdateSymbolsCacheWrite(p)
    \/ \E p \in Procs : FetchBalanceSymbols(p)
    \/ \E p \in Procs : ExchangeRateOk(p)
    \/ \E p \in Procs : ExchangeRateFailed(p)
    \/ \E p \in Procs : UpdateExchangeRateCacheWrite(p)
    \/ \E p \in Procs : FetchBalanceExchange(p)
    \/ \E p \in Procs : FetchBalanceCatch(p)
    \/ \E p \in Procs : GetTodayBalance(p)
    \/ \E p \in Procs : HandleGetBalanceToday(p)
    \/ \E p \in Procs : HandleGetBalanceUpdated(p)
    \/ \E p \in Procs : GetLatestBalance(p)
    \/ \E p \in Procs : HandleGetBalanceLatest(p)
    \/ \E p \in Procs : DashboardLatest(p)
    \/ \E p \in Procs : GetYesterdayBalance(p)
    \/ \E p \in Procs : DashboardYesterday(p)
    \/ \E p \in Procs : GetHistoricalData(p)
    \/ \E p \in Procs : DashboardHistory(p)
    \/ \E p \in Procs : \E k \in 1..3 : DashboardRead(p, k)
    \/ \E p \in Procs : \E k \in 1..3 : DashboardAfterUpdate(p, k)
    \/ \E p \in Procs : \E k \in 1..3 : DashboardReadAgain(p, k)
    \/ \E l \in Limiters : Dispatch(l)

NextLive == ArrivalsLive \/ StepsLive

\* The event loop is never idle while a completion, a continuation or a
\* launch is due, and every call in flight settles.
SpecLive == InitLive /\ [][NextLive]_vars /\ WF_vars(StepsLive)

\* ---- progress (SpecLive) ----

\* the calls waiting in the queue of limiter l, the calls of l in flight
Waiting(l) == {queue[l][i].seq : i \in 1..Len(queue[l])}
InFlight(l) == {c.seq : c \in running[l]}

\* the operation of p has ended: the scheduled run has returned, the request
\* has been answered
Ended(p) == pc[p] = <<"done">> /\ result[p] # NoResult

\* every operation that has started has ended and no call is waiting
Quiet ==
    /\ \A p \in Procs : pc[p] = <<"idle">> \/ Ended(p)
    /\ \A l \in Limiters : queue[l] = <<>>

\* C39: with an event loop that is never idle while work is due and with
\* calls that all settle, by success or by failure, every call given to a
\* limiter is eventually launched, and every scheduled run of fetchBalance
\* and every dashboard, balance and force-balance request that has started
\* eventually ends, also when a run and a request overlap and wait on the
\* same limiters.  A call leaves the queue of its limiter only by being
\* launched, an operation that has started is not idle again and one that
\* has ended stays ended; and whatever has happened, a state follows in which
\* no call is waiting and every operation that has started has ended.
C39_EveryCallLaunchedEveryOperationEnds ==
    /\ [][/\ \A l \in Limiters : Waiting(l) \ Waiting(l)' \subseteq InFlight(l)'
          /\ \A p \in Procs : pc[p] # <<"idle">> => pc'[p] # <<"idle">>
          /\ \A p \in Procs : Ended(p) => Ended(p)'
         ]_vars
    /\ []<>Quiet

\* the scheduled run and a dashboard request, started together, have both
\* ended after a failure in each; the two limiters launched every call the
\* two operations gave them, eight and four, and are empty again
C39_Witness ==
    /\ Ended("p1") /\ Ended("p2")
    /\ Runs("p1", "fetchBalance") /\ Runs("p2", "dashboard")
    /\ Failures("p1") # {} /\ Failures("p2") # {}
    /\ \A l \in Limiters : queue[l] = <<>> /\ running[l] = {} /\ lastSeq[l] = nextSeq[l]
    /\ nextSeq["limiter"] >= 8 /\ nextSeq["marketLimiter"] >= 4

====
